---- MODULE Spec2Model ----
(***************************************************************************)
(* Nakamoto block builder and block-proposal validator                     *)
(* (stackslib/src/chainstate/nakamoto/miner.rs).                           *)
(*                                                                         *)
(* One run of the model: a miner builds a block with NakamotoBlockBuilder  *)
(* (new_from_parent, load_tenure_info, tenure_begin, try_mine_tx_with_len  *)
(* per offered transaction, mine_nakamoto_block, tenure_finish), the block *)
(* is signed and wrapped in a NakamotoBlockProposal (possibly altered      *)
(* before or after signing, possibly delivered to a node whose chain state *)
(* differs), and NakamotoBlockProposal::validate replays it.               *)
(*                                                                         *)
(* Hashes are modelled as injective tuples of what they hash.  An          *)
(* Option<T> is a sequence of length 0 or 1, except Option<transaction>,   *)
(* which is a transaction name or "none".                                  *)
(***************************************************************************)
EXTENDS Integers, Sequences, FiniteSets, TLC

\* ------------------------------------------------------------------ bounds
\* Longest transaction list a builder accumulates in one run.
MaxTxs == 2

\* ------------------------------------------------------- program constants
MAX_EPOCH_SIZE == 2 * 1024 * 1024
TX_BLOCK_LIMIT_PROPORTION_HEURISTIC == 20
CHAIN_ID_MAINNET == 1
\* The other chain id of the model (the testnet's).
CHAIN_ID_TESTNET == 2
\* Largest u64 of the model: the only coinbase height whose checked_add(1)
\* is None.  (TLC integers are 32 bits wide.)
U64_MAX == 2147483647

\* A u64 addition that leaves the range 0..U64_MAX.
add_overflows(a, b) == a > U64_MAX - b

\* A u64 addition as a build without overflow checks computes it: modulo
\* U64_MAX + 1.
wrapping_add(a, b) == IF add_overflows(a, b) THEN a - (U64_MAX - b) - 1 ELSE a + b

\* Total execution budget of a block, one cost dimension.
BLOCK_LIMIT == 100

NONE == "none"

\* ------------------------------------------------------------ transactions
\* The transactions of the model, by name.  A transaction's name is its txid.
TXS == {"tc_bf", "tc_ext", "cb", "xfer", "boot", "call", "deploy", "bad", "deep"}

\* TransactionPayload variant of a transaction.
Payload(tx) ==
    CASE tx \in {"tc_bf", "tc_ext"} -> "TenureChange"
      [] tx = "cb" -> "Coinbase"
      [] tx = "xfer" -> "TokenTransfer"
      [] tx \in {"boot", "call", "deep"} -> "ContractCall"
      [] tx \in {"deploy", "bad"} -> "SmartContract"

\* TenureChangePayload.cause of a tenure-change transaction.
PayloadCause(tx) == IF tx = "tc_bf" THEN "BlockFound" ELSE "Extended"

\* cc.address.is_boot_code_addr() of a contract call.
is_boot_code_addr(tx) == tx = "boot"

\* StacksTransaction::tx_len: the serialized length.
tx_len(tx) ==
    CASE tx = "deploy" -> MAX_EPOCH_SIZE \div 2
      [] OTHER -> 180

\* Execution cost a transaction charges when it runs.
TxCost(tx) ==
    CASE tx = "xfer" -> 10
      [] tx = "boot" -> 20
      [] tx = "deploy" -> 90
      [] tx = "call" -> 120
      [] OTHER -> 0

\* Option<TenureChangeCause> of an optional tenure-change transaction:
\* tx.try_as_tenure_change().map(|payload| payload.cause).
try_as_tenure_change_cause(tx) ==
    IF tx # NONE /\ Payload(tx) = "TenureChange" THEN <<PayloadCause(tx)>> ELSE <<>>

\* NakamotoTenureInfo::cause
cause(tenure_info) == try_as_tenure_change_cause(tenure_info.tenure_change_tx)

\* filter_map(|x| x) of an array of optional transactions: those present, in
\* the order of the array.
RECURSIVE filter_map(_)
filter_map(opts) ==
    IF opts = <<>> THEN <<>>
    ELSE (IF opts[1] = NONE THEN <<>> ELSE <<opts[1]>>) \o filter_map(Tail(opts))

\* build_nakamoto_block with the coinbase put first in the array: a build that
\* starts a tenure offers the coinbase before the tenure change, and C40 fails.
initial_txs_coinbase_first(tenure_info) ==
    filter_map(<<tenure_info.coinbase_tx, tenure_info.tenure_change_tx>>)

\* build_nakamoto_block: initial_txs, the tenure change and the coinbase of the
\* NakamotoTenureInfo that are present.
initial_txs(tenure_info) ==
    filter_map(<<tenure_info.tenure_change_tx, tenure_info.coinbase_tx>>)

\* ------------------------------------------------------- headers and hashes
\* The two parent headers a build can be given (StacksHeaderInfo).
NakamotoParent ==
    [kind |-> "nakamoto", consensus_hash |-> "chN", block_hash |-> "bhN",
     chain_length |-> 5, burn_header_height |-> 150]
Epoch2Parent ==
    [kind |-> "epoch2", consensus_hash |-> "chE", block_hash |-> "bhE",
     chain_length |-> 7, burn_header_height |-> 140]
Parents == {NakamotoParent, Epoch2Parent}

\* StacksBlockId::new(consensus_hash, block_hash)
StacksBlockId(consensus_hash, block_hash) == <<consensus_hash, block_hash>>

\* block_id() / index_block_hash() of a stored header.
block_id(h) == StacksBlockId(h.consensus_hash, h.block_hash)

ZeroHash == <<"zero">>
NoSignature == <<"nosig">>

\* MerkleTree::<Sha512Trunc256Sum>::new(&txid_vecs).root(): order-sensitive.
MerkleRoot(txids) == <<"merkle", txids>>

\* NakamotoBlockHeader::from_parent_empty
from_parent_empty(chain_length, burn_spent, consensus_hash, parent_block_id) ==
    [chain_length |-> chain_length, burn_spent |-> burn_spent,
     consensus_hash |-> consensus_hash, parent_block_id |-> parent_block_id,
     tx_merkle_root |-> ZeroHash, state_index_root |-> ZeroHash,
     miner_signature |-> NoSignature, signer_signature |-> NoSignature]

\* What the miner and the signers sign: every header field but the signatures.
signature_hash(h) ==
    <<"sighash", h.chain_length, h.burn_spent, h.consensus_hash, h.parent_block_id,
      h.tx_merkle_root, h.state_index_root>>

\* NakamotoBlockHeader::block_hash: every header field.
block_hash(h) ==
    <<"blockhash", signature_hash(h), h.miner_signature, h.signer_signature>>

\* header.sign_miner(privk) followed by signer.sign_nakamoto_block(block).
sign(h) ==
    [h EXCEPT !.miner_signature = <<"miner", signature_hash(h)>>,
              !.signer_signature = <<"signer", signature_hash(h)>>]

\* ------------------------------------------------------------- chain state
\* The chain state a good node holds.
GoodChain ==
    [chain_id |-> CHAIN_ID_TESTNET, mainnet |-> FALSE,
     headers |-> Parents,          \* block headers in chain storage
     sortdb_ok |-> TRUE,           \* reads of the sortition DB succeed
     burn_fits_u32 |-> TRUE,       \* canonical burn tip height fits a u32
     coinbase_height |-> <<1>>,    \* get_coinbase_height(parent): Ok(Some(1))
     coinbase_height_ok |-> TRUE,  \* ... or Err
     tx_begin_ok |-> TRUE,         \* chainstate_tx_begin succeeds
     setup_ok |-> TRUE,            \* setup_block succeeds
     finish_ok |-> TRUE,           \* finish_block succeeds
     expected_burn |-> 100,        \* get_expected_burns
     sortitions |-> {"chT"},       \* consensus hashes of known sortitions
     burn_tip |-> "burnT", burn_tip_height |-> 200]

\* Chain states that differ from the good one in one response, and one that
\* has neither the headers nor a readable sortition DB.
OtherChains ==
    { [GoodChain EXCEPT !.headers = {}],
      [GoodChain EXCEPT !.headers = {}, !.sortdb_ok = FALSE],
      [GoodChain EXCEPT !.sortdb_ok = FALSE],
      [GoodChain EXCEPT !.burn_fits_u32 = FALSE],
      [GoodChain EXCEPT !.coinbase_height = <<>>],
      [GoodChain EXCEPT !.coinbase_height = <<U64_MAX>>],
      [GoodChain EXCEPT !.coinbase_height_ok = FALSE],
      [GoodChain EXCEPT !.tx_begin_ok = FALSE],
      [GoodChain EXCEPT !.setup_ok = FALSE],
      [GoodChain EXCEPT !.finish_ok = FALSE],
      [GoodChain EXCEPT !.mainnet = TRUE] }

ChainStates == {GoodChain} \cup OtherChains

\* get_block_header that answers an unknown id with a header it has at
\* hand: validate builds on a parent the chain does not have, and C19 fails.
get_block_header_or_default(chainstate, id) ==
    IF \E h \in chainstate.headers : block_id(h) = id
    THEN <<CHOOSE h \in chainstate.headers : block_id(h) = id>>
    ELSE <<NakamotoParent>>

\* get_block_header that answers every id with a header made up from it: no
\* parent is ever missing, load_tenure_info goes on to open the scratch
\* transaction, and C32 fails.
get_block_header_made_up(chainstate, id) ==
    <<[kind |-> "nakamoto", consensus_hash |-> id[1], block_hash |-> id[2],
       chain_length |-> 0, burn_header_height |-> 0]>>

\* NakamotoChainState::get_block_header(chainstate.db(), block_id)
get_block_header(chainstate, id) ==
    IF \E h \in chainstate.headers : block_id(h) = id
    THEN <<CHOOSE h \in chainstate.headers : block_id(h) = id>>
    ELSE <<>>

\* ----------------------------------------------------------------- builder
\* A NakamotoBlockBuilder not yet constructed.
NoHeader == from_parent_empty(0, 0, NONE, <<NONE, NONE>>)
NoBuilder ==
    [epoch2_parent_header |-> <<>>, nakamoto_parent_header |-> <<>>,
     coinbase_tx |-> NONE, tenure_tx |-> NONE, total_burn |-> 0,
     parent_commit_hash_value |-> <<>>, matured_miner_rewards_opt |-> <<>>,
     bytes_so_far |-> 0, txs |-> <<>>, header |-> NoHeader]

\* BlockHeaderHash(parent_tenure_id.0.clone()): the same bytes, retyped.
BlockHeaderHashOfId(id) == id

\* new_tenure_from_nakamoto_parent that builds atop parent_tenure_id, the
\* proposal's tenure_start_block in validate: the verdict then depends on that
\* field, and C22 fails.
new_tenure_atop_tenure_start(parent_tenure_id, parent, tenure_id_consensus_hash, total_burn, tenure_change, coinbase) ==
    [epoch2_parent_header |-> <<>>, nakamoto_parent_header |-> <<parent>>,
     coinbase_tx |-> coinbase, tenure_tx |-> tenure_change, total_burn |-> total_burn,
     parent_commit_hash_value |-> BlockHeaderHashOfId(parent_tenure_id),
     matured_miner_rewards_opt |-> <<>>, bytes_so_far |-> 0, txs |-> <<>>,
     header |-> from_parent_empty(parent.chain_length + 1, total_burn,
                                  tenure_id_consensus_hash, parent_tenure_id)]

new_tenure_from_nakamoto_parent(parent_tenure_id, parent, tenure_id_consensus_hash, total_burn, tenure_change, coinbase) ==
    [epoch2_parent_header |-> <<>>, nakamoto_parent_header |-> <<parent>>,
     coinbase_tx |-> coinbase, tenure_tx |-> tenure_change, total_burn |-> total_burn,
     parent_commit_hash_value |-> BlockHeaderHashOfId(parent_tenure_id),
     matured_miner_rewards_opt |-> <<>>, bytes_so_far |-> 0, txs |-> <<>>,
     header |-> from_parent_empty(parent.chain_length + 1, total_burn,
                                  tenure_id_consensus_hash, block_id(parent))]

\* continue_tenure_from_nakamoto_parent that gives the block its parent's
\* chain length: C30 fails.
continue_tenure_at_parent_height(parent, tenure_id_consensus_hash, total_burn, tenure_extend) ==
    [epoch2_parent_header |-> <<>>, nakamoto_parent_header |-> <<parent>>,
     coinbase_tx |-> NONE, tenure_tx |-> tenure_extend, total_burn |-> total_burn,
     parent_commit_hash_value |-> BlockHeaderHashOfId(block_id(parent)),
     matured_miner_rewards_opt |-> <<>>, bytes_so_far |-> 0, txs |-> <<>>,
     header |-> from_parent_empty(parent.chain_length, total_burn,
                                  tenure_id_consensus_hash, block_id(parent))]

continue_tenure_from_nakamoto_parent(parent, tenure_id_consensus_hash, total_burn, tenure_extend) ==
    [epoch2_parent_header |-> <<>>, nakamoto_parent_header |-> <<parent>>,
     coinbase_tx |-> NONE, tenure_tx |-> tenure_extend, total_burn |-> total_burn,
     parent_commit_hash_value |-> BlockHeaderHashOfId(block_id(parent)),
     matured_miner_rewards_opt |-> <<>>, bytes_so_far |-> 0, txs |-> <<>>,
     header |-> from_parent_empty(parent.chain_length + 1, total_burn,
                                  tenure_id_consensus_hash, block_id(parent))]

\* parent.total_work.work is the epoch-2 header's chain_length field here.
new_tenure_from_epoch2_parent(parent, parent_tenure_id_consensus_hash, tenure_id_consensus_hash, total_burn, tenure_change, coinbase) ==
    [epoch2_parent_header |-> <<parent>>, nakamoto_parent_header |-> <<>>,
     coinbase_tx |-> coinbase, tenure_tx |-> tenure_change, total_burn |-> total_burn,
     parent_commit_hash_value |-> <<parent.block_hash>>,
     matured_miner_rewards_opt |-> <<>>, bytes_so_far |-> 0, txs |-> <<>>,
     header |-> from_parent_empty(parent.chain_length + 1, total_burn,
                                  tenure_id_consensus_hash,
                                  StacksBlockId(parent_tenure_id_consensus_hash,
                                                parent.block_hash))]


\* NakamotoBlockBuilder::new_tenure_from_genesis (testing only): no parent
\* header of either kind.
new_tenure_from_genesis(tenure_change, coinbase) ==
    [epoch2_parent_header |-> <<>>, nakamoto_parent_header |-> <<>>,
     coinbase_tx |-> coinbase, tenure_tx |-> tenure_change, total_burn |-> 0,
     parent_commit_hash_value |-> <<"FIRST_STACKS_BLOCK_HASH">>,
     matured_miner_rewards_opt |-> <<>>, bytes_so_far |-> 0, txs |-> <<>>,
     header |-> from_parent_empty(0, 0, "FIRST_BURNCHAIN_CONSENSUS_HASH",
                                  <<NONE, NONE>>)]

\* new_from_parent with the epoch-2 branch as tolerant as the Nakamoto one: a
\* missing coinbase or tenure change still gives a builder, and C11 fails.
new_from_parent_epoch2_tolerant(parent_tenure_id, parent_stacks_header, tenure_id_consensus_hash, total_burn, tenure_change, coinbase) ==
    IF parent_stacks_header.kind = "nakamoto"
    THEN [ok |-> TRUE, err |-> NONE,
          builder |-> IF coinbase # NONE /\ tenure_change # NONE
                      THEN new_tenure_from_nakamoto_parent(
                               parent_tenure_id, parent_stacks_header,
                               tenure_id_consensus_hash, total_burn, tenure_change,
                               coinbase)
                      ELSE continue_tenure_from_nakamoto_parent(
                               parent_stacks_header, tenure_id_consensus_hash,
                               total_burn, tenure_change)]
    ELSE [ok |-> TRUE, err |-> NONE,
          builder |-> new_tenure_from_epoch2_parent(
                          parent_stacks_header, parent_stacks_header.consensus_hash,
                          tenure_id_consensus_hash, total_burn, tenure_change,
                          coinbase)]

\* NakamotoBlockBuilder::new_from_parent: Ok(builder) or Err(error).
new_from_parent(parent_tenure_id, parent_stacks_header, tenure_id_consensus_hash, total_burn, tenure_change, coinbase) ==
    IF parent_stacks_header.kind = "nakamoto"
    THEN IF coinbase # NONE /\ tenure_change # NONE
         THEN [ok |-> TRUE, err |-> NONE,
               builder |-> new_tenure_from_nakamoto_parent(
                   parent_tenure_id, parent_stacks_header, tenure_id_consensus_hash,
                   total_burn, tenure_change, coinbase)]
         ELSE [ok |-> TRUE, err |-> NONE,
               builder |-> continue_tenure_from_nakamoto_parent(
                   parent_stacks_header, tenure_id_consensus_hash, total_burn,
                   tenure_change)]
    ELSE IF parent_stacks_header.kind = "epoch2"
    THEN IF tenure_change # NONE /\ coinbase # NONE
         THEN [ok |-> TRUE, err |-> NONE,
               builder |-> new_tenure_from_epoch2_parent(
                   parent_stacks_header, parent_stacks_header.consensus_hash,
                   tenure_id_consensus_hash, total_burn, tenure_change, coinbase)]
         ELSE [ok |-> FALSE, err |-> "ExpectedTenureChange", builder |-> NoBuilder]
    ELSE [ok |-> FALSE, err |-> "InvalidStacksBlock", builder |-> NoBuilder]

\* A MinerTenureInfo not yet loaded.
NoInfo ==
    [chainstate_tx |-> "closed", burn_tip |-> NONE, burn_tip_height |-> 0,
     mainnet |-> FALSE, parent_consensus_hash |-> NONE, parent_header_hash |-> NONE,
     parent_stacks_block_height |-> 0, parent_burn_block_height |-> 0,
     coinbase_height |-> 0, cause |-> <<>>]

\* StacksHeaderInfo::regtest_genesis() and the first-block constants.
GenesisHeaderInfo ==
    [kind |-> "genesis", consensus_hash |-> "FIRST_BURNCHAIN_CONSENSUS_HASH",
     block_hash |-> "FIRST_STACKS_BLOCK_HASH", chain_length |-> 0,
     burn_header_height |-> 0]

\* The parent the builder holds: its Nakamoto parent, else its epoch-2 parent,
\* else genesis.
BuilderParent(builder) ==
    IF builder.nakamoto_parent_header # <<>> THEN builder.nakamoto_parent_header[1]
    ELSE IF builder.epoch2_parent_header # <<>> THEN builder.epoch2_parent_header[1]
    ELSE GenesisHeaderInfo

\* NakamotoBlockBuilder::load_tenure_info: outcome "ok" (info), "err" (err) or
\* "panic" (an expect() failed), and the storage operations it performed.
load_tenure_info(builder, chainstate, tenure_cause) ==
    LET parent == BuilderParent(builder)
        is_genesis == parent.kind = "genesis"
        stored == get_block_header(chainstate, block_id(parent))
        lookup == IF is_genesis THEN {} ELSE {"get_block_header"}
        fail(outcome, err, done) ==
            [outcome |-> outcome, err |-> err, info |-> NoInfo, effects |-> done]
    IN
    IF ~chainstate.sortdb_ok THEN fail("err", "DBError", {"sortdb_read"})
    ELSE IF ~chainstate.burn_fits_u32
    THEN fail("panic", "block height overflow", {"sortdb_read"})
    ELSE IF ~is_genesis /\ stored = <<>>
    THEN fail("err", "NoSuchBlockError", {"sortdb_read"} \cup lookup)
    ELSE IF chainstate.coinbase_height_ok /\ chainstate.coinbase_height # <<>>
            /\ chainstate.coinbase_height[1] = U64_MAX
    THEN fail("panic", "Blockchain overflow",
              {"sortdb_read", "get_coinbase_height"} \cup lookup)
    ELSE IF ~chainstate.tx_begin_ok
    THEN fail("err", "DBError",
              {"sortdb_read", "get_coinbase_height", "chainstate_tx_begin"} \cup lookup)
    ELSE
      LET chain_tip == IF is_genesis THEN GenesisHeaderInfo ELSE stored[1]
          coinbase_height ==
              IF chainstate.coinbase_height_ok /\ chainstate.coinbase_height # <<>>
              THEN chainstate.coinbase_height[1] + 1
              ELSE 0
      IN [outcome |-> "ok", err |-> NONE,
          effects |-> {"sortdb_read", "get_coinbase_height", "chainstate_tx_begin"}
                          \cup lookup,
          info |-> [chainstate_tx |-> "open",
                    burn_tip |-> chainstate.burn_tip,
                    burn_tip_height |-> chainstate.burn_tip_height,
                    mainnet |-> chainstate.mainnet,
                    parent_consensus_hash |-> parent.consensus_hash,
                    parent_header_hash |-> parent.block_hash,
                    parent_stacks_block_height |-> chain_tip.chain_length,
                    parent_burn_block_height |-> chain_tip.burn_header_height,
                    coinbase_height |-> coinbase_height,
                    cause |-> tenure_cause]]

\* A ClarityTx that is not open.
NoClarity ==
    [open |-> FALSE, setup |-> <<>>, applied |-> <<>>, cost |-> 0,
     rewards |-> <<>>, finished |-> FALSE, sealed |-> FALSE]

\* NakamotoChainState::setup_block: the block's initial state is determined by
\* the arguments it is given; matured rewards are due when a tenure starts.
setup_block(info, new_tenure, tenure_extend) ==
    [clarity_tx |->
        [open |-> TRUE,
         setup |-> <<info.parent_consensus_hash, info.parent_header_hash,
                     info.parent_stacks_block_height, info.parent_burn_block_height,
                     info.burn_tip, info.burn_tip_height, new_tenure,
                     info.coinbase_height, tenure_extend>>,
         applied |-> <<>>, cost |-> 0, rewards |-> <<>>,
         finished |-> FALSE, sealed |-> FALSE],
     matured_miner_rewards_opt |-> IF new_tenure THEN <<"matured">> ELSE <<>>]

\* NakamotoBlockBuilder::tenure_begin
tenure_begin(builder, info, chainstate) ==
    IF ~chainstate.setup_ok
    THEN [ok |-> FALSE, err |-> "ChainstateSetupError", builder |-> builder,
          clarity_tx |-> NoClarity]
    ELSE LET r == setup_block(info, info.cause = <<"BlockFound">>,
                              info.cause = <<"Extended">>)
         IN [ok |-> TRUE, err |-> NONE,
             builder |-> [builder EXCEPT
                            !.matured_miner_rewards_opt = r.matured_miner_rewards_opt],
             clarity_tx |-> r.clarity_tx]

\* --------------------------------------------------- the execution oracle
\* Relayer::static_check_problematic_relayed_tx(..).is_err()
static_check_problematic_relayed_tx(tx) == tx = "bad"

\* ExecutionCost::proportion_largest_dimension: percent of the budget used.
proportion_largest_dimension(total_budget, cost) == (cost * 100) \div total_budget

\* StacksChainState::process_transaction on an open block: deterministic in the
\* block's state.  A transaction already applied fails its nonce check; one
\* whose cost does not fit the budget fails with CostOverflowError and leaves
\* its partial charge; "deep" exceeds the interpreter's stack depth.
process_transaction(clarity_tx, tx) ==
    LET cost_before == clarity_tx.cost
        cost_after == clarity_tx.cost + TxCost(tx)
        fail(kind, c) ==
            [ok |-> FALSE, err |-> kind, cost_before |-> cost_before,
             cost_after |-> cost_after, total_budget |-> BLOCK_LIMIT, clarity_tx |-> c]
    IN
    IF \E i \in 1..Len(clarity_tx.applied) : clarity_tx.applied[i] = tx
    THEN fail("InvalidStacksTransaction", clarity_tx)
    ELSE IF tx = "deep" THEN fail("MaxStackDepthReached", clarity_tx)
    ELSE IF cost_after > BLOCK_LIMIT
    THEN fail("CostOverflowError", [clarity_tx EXCEPT !.cost = cost_after])
    ELSE [ok |-> TRUE, err |-> NONE, cost_before |-> cost_before,
          cost_after |-> cost_after, total_budget |-> BLOCK_LIMIT,
          clarity_tx |-> [clarity_tx EXCEPT !.applied = Append(@, tx),
                                            !.cost = cost_after]]

\* TransactionResult::is_problematic(tx, error, epoch)
is_problematic(tx, err) == err = "MaxStackDepthReached"

\* reset_cost that leaves the cost where the failed transaction put it: the
\* partial charge stays, and C28 fails.
reset_cost_ignored(clarity_tx, cost) == clarity_tx

\* ClarityTx::reset_cost
reset_cost(clarity_tx, cost) == [clarity_tx EXCEPT !.cost = cost]

\* --------------------------------------------------------------- admission
LimitBehaviors == {"NO_LIMIT_HIT", "CONTRACT_LIMIT_HIT", "LIMIT_REACHED"}

\* What one try_mine_tx_with_len call returns and leaves behind: the
\* TransactionResult (kind, error), the builder and the ClarityTx after the call,
\* and whether the static check and process_transaction were invoked.
Admission(kind, error, builder, clarity_tx, static_called, exec_called) ==
    [kind |-> kind, error |-> error, builder |-> builder, clarity_tx |-> clarity_tx,
     static_called |-> static_called, exec_called |-> exec_called]

\* The byte budget check with > for >=: a transaction that fills the block to
\* exactly MAX_EPOCH_SIZE passes, and C13 fails.
exceeds_epoch_size_strict(bytes_so_far, len) == bytes_so_far + len > MAX_EPOCH_SIZE

\* The byte budget check: self.bytes_so_far + tx_len >= MAX_EPOCH_SIZE, the sum
\* as a build without overflow checks computes it (a build with them panics
\* when add_overflows).
exceeds_epoch_size(bytes_so_far, len) ==
    wrapping_add(bytes_so_far, len) >= MAX_EPOCH_SIZE

\* limit_skip without the SmartContract arm: deploys run under
\* CONTRACT_LIMIT_HIT, and C14 fails.
limit_skip_deploys_pass(tx, limit_behavior) ==
    CASE limit_behavior = "CONTRACT_LIMIT_HIT" ->
            IF Payload(tx) = "ContractCall" /\ ~is_boot_code_addr(tx)
            THEN "BlockLimitFunction::CONTRACT_LIMIT_HIT" ELSE NONE
      [] limit_behavior = "LIMIT_REACHED" -> "BlockLimitFunction::LIMIT_REACHED"
      [] limit_behavior = "NO_LIMIT_HIT" -> NONE

\* limit_skip without the ContractCall arm: every contract call runs under
\* CONTRACT_LIMIT_HIT, and C15 fails.
limit_skip_calls_pass(tx, limit_behavior) ==
    CASE limit_behavior = "CONTRACT_LIMIT_HIT" ->
            IF Payload(tx) = "SmartContract"
            THEN "BlockLimitFunction::CONTRACT_LIMIT_HIT" ELSE NONE
      [] limit_behavior = "LIMIT_REACHED" -> "BlockLimitFunction::LIMIT_REACHED"
      [] limit_behavior = "NO_LIMIT_HIT" -> NONE

\* limit_skip with LIMIT_REACHED handled as CONTRACT_LIMIT_HIT is: transfers and
\* boot-code calls pass, and C3 fails under it.
limit_skip_contracts_only(tx, limit_behavior) ==
    IF limit_behavior = "NO_LIMIT_HIT"
    THEN NONE
    ELSE IF (Payload(tx) = "ContractCall" /\ ~is_boot_code_addr(tx))
            \/ Payload(tx) = "SmartContract"
    THEN "BlockLimitFunction::CONTRACT_LIMIT_HIT"
    ELSE NONE

\* The match on limit_behavior: the message of the skip, or none.
limit_skip(tx, limit_behavior) ==
    CASE limit_behavior = "CONTRACT_LIMIT_HIT" ->
            IF Payload(tx) = "ContractCall"
            THEN IF ~is_boot_code_addr(tx)
                 THEN "BlockLimitFunction::CONTRACT_LIMIT_HIT" ELSE NONE
            ELSE IF Payload(tx) = "SmartContract"
            THEN "BlockLimitFunction::CONTRACT_LIMIT_HIT"
            ELSE NONE
      [] limit_behavior = "LIMIT_REACHED" -> "BlockLimitFunction::LIMIT_REACHED"
      [] limit_behavior = "NO_LIMIT_HIT" -> NONE

\* save_tx without the byte count: the accounting of C2 fails under it.
save_tx_without_bytes(builder, tx, len) ==
    [builder EXCEPT !.txs = Append(@, tx)]

\* save_tx that puts the transaction in front of the others: the block lists
\* its transactions in reverse admission order, and C24 fails.
save_tx_prepended(builder, tx, len) ==
    [builder EXCEPT !.txs = <<tx>> \o @, !.bytes_so_far = @ + len]

\* save_tx that also keeps the header's tx_merkle_root up to date: the digest
\* is computed incrementally by the admission calls, and C27 fails.
save_tx_with_root(builder, tx, len) ==
    [builder EXCEPT !.txs = Append(@, tx), !.bytes_so_far = @ + len,
                    !.header.tx_merkle_root = MerkleRoot(Append(builder.txs, tx))]

\* save_tx that counts the bytes with a saturating addition while the byte
\* budget check wraps: a transaction admitted on a wrapped sum leaves
\* bytes_so_far at U64_MAX, and C38 fails.
save_tx_saturating(builder, tx, len) ==
    [builder EXCEPT !.txs = Append(@, tx),
                    !.bytes_so_far = IF add_overflows(@, len) THEN U64_MAX ELSE @ + len]

\* "save": self.txs.push(tx.clone()) and self.bytes_so_far += tx_len.
save_tx(builder, tx, len) ==
    [builder EXCEPT !.txs = Append(@, tx), !.bytes_so_far = wrapping_add(@, len)]

\* The CostOverflowError arm with <= for <: a block filled to exactly the
\* heuristic's proportion counts as not nearly full, and C17 fails.
cost_overflow_result_nonstrict(builder, r) ==
    IF proportion_largest_dimension(r.total_budget, r.cost_before)
           <= TX_BLOCK_LIMIT_PROPORTION_HEURISTIC
    THEN Admission("ProcessingError", "TransactionTooBigError", builder,
                   reset_cost(r.clarity_tx, r.cost_before), TRUE, TRUE)
    ELSE Admission("Skipped", "BlockTooBigError", builder,
                   reset_cost(r.clarity_tx, r.cost_before), TRUE, TRUE)

\* The CostOverflowError arm: the cost is reset, and the result is an error when
\* the block was not nearly full before the transaction, a skip otherwise.
cost_overflow_result(builder, r) ==
    IF proportion_largest_dimension(r.total_budget, r.cost_before)
           < TX_BLOCK_LIMIT_PROPORTION_HEURISTIC
    THEN Admission("ProcessingError", "TransactionTooBigError", builder,
                   reset_cost(r.clarity_tx, r.cost_before), TRUE, TRUE)
    ELSE Admission("Skipped", "BlockTooBigError", builder,
                   reset_cost(r.clarity_tx, r.cost_before), TRUE, TRUE)

\* The Err(e) arm with its last case masked: an error that is neither
\* problematic nor a cost overflow is dropped and the transaction saved as a
\* success, and C29 fails.
execution_error_result_masked(builder, tx, len, r) ==
    IF is_problematic(tx, r.err)
    THEN Admission("Problematic", r.err, builder, r.clarity_tx, TRUE, TRUE)
    ELSE IF r.err = "CostOverflowError"
    THEN cost_overflow_result(builder, r)
    ELSE Admission("Success", NONE, save_tx(builder, tx, len), r.clarity_tx,
                   TRUE, TRUE)

\* The Err(e) arm of the match on process_transaction: Problematic when
\* is_problematic flags the error, the cost-overflow handling, and
\* TransactionResult::error(tx, e) for any other error.
execution_error_result(builder, tx, len, r) ==
    IF is_problematic(tx, r.err)
    THEN Admission("Problematic", r.err, builder, r.clarity_tx, TRUE, TRUE)
    ELSE IF r.err = "CostOverflowError"
    THEN cost_overflow_result(builder, r)
    ELSE Admission("ProcessingError", r.err, builder, r.clarity_tx, TRUE, TRUE)

\* BlockBuilder::try_mine_tx_with_len for NakamotoBlockBuilder
try_mine_tx_with_len(builder, clarity_tx, tx, len, limit_behavior) ==
    IF exceeds_epoch_size(builder.bytes_so_far, len)
    THEN Admission("Skipped", "BlockTooBigError", builder, clarity_tx, FALSE, FALSE)
    ELSE IF limit_skip(tx, limit_behavior) # NONE
    THEN Admission("Skipped", limit_skip(tx, limit_behavior), builder, clarity_tx,
                   FALSE, FALSE)
    ELSE IF static_check_problematic_relayed_tx(tx)
    THEN Admission("Problematic", "NetError", builder, clarity_tx, TRUE, FALSE)
    ELSE
      LET r == process_transaction(clarity_tx, tx) IN
      IF r.ok
      THEN Admission("Success", NONE, save_tx(builder, tx, len), r.clarity_tx,
                     TRUE, TRUE)
      ELSE execution_error_result(builder, tx, len, r)

\* ------------------------------------------------------------ finalization
\* ClarityTx::seal: the state root over everything written to the block.
seal(clarity_tx) ==
    <<"trie", clarity_tx.setup, clarity_tx.applied, clarity_tx.rewards>>

NoBlock == [header |-> NoHeader, txs |-> <<>>]

\* finalize_block that seals the state but leaves the header's tx_merkle_root
\* as the constructor set it: a block and its replay then agree on a root
\* that is not the root of the transactions, and C36 fails.
finalize_block_stale_merkle_root(builder, clarity_tx) ==
    LET header == [builder.header EXCEPT !.state_index_root = seal(clarity_tx)]
    IN [builder |-> [builder EXCEPT !.header = header],
        clarity_tx |-> [clarity_tx EXCEPT !.sealed = TRUE],
        block |-> [header |-> header, txs |-> builder.txs]]

\* NakamotoBlockBuilder::finalize_block: the builder with its header filled in,
\* the sealed ClarityTx and the block.
finalize_block(builder, clarity_tx) ==
    LET tx_merkle_root == MerkleRoot(builder.txs)
        state_root_hash == seal(clarity_tx)
        header == [builder.header EXCEPT !.tx_merkle_root = tx_merkle_root,
                                         !.state_index_root = state_root_hash]
    IN [builder |-> [builder EXCEPT !.header = header],
        clarity_tx |-> [clarity_tx EXCEPT !.sealed = TRUE],
        block |-> [header |-> header, txs |-> builder.txs]]

\* NakamotoChainState::finish_block(clarity_tx, matured_miner_rewards_opt)
finish_block(clarity_tx, matured_miner_rewards_opt) ==
    [clarity_tx EXCEPT !.rewards = matured_miner_rewards_opt, !.finished = TRUE]

\* NakamotoBlockBuilder::mine_nakamoto_block: outcome "ok", or "panic" when
\* finish_block fails.
mine_nakamoto_block(builder, clarity_tx, chainstate) ==
    IF ~chainstate.finish_ok
    THEN [outcome |-> "panic", builder |-> builder, clarity_tx |-> clarity_tx,
          block |-> NoBlock]
    ELSE LET f == finalize_block(
                    builder, finish_block(clarity_tx, builder.matured_miner_rewards_opt))
         IN [outcome |-> "ok", builder |-> f.builder, clarity_tx |-> f.clarity_tx,
             block |-> f.block]

\* StacksBlockHeader::make_index_block_hash(MINER_BLOCK_CONSENSUS_HASH,
\* MINER_BLOCK_HEADER_HASH): the one key every mined trie is written under.
MinerIndexBlockHash ==
    StacksBlockId("MINER_BLOCK_CONSENSUS_HASH", "MINER_BLOCK_HEADER_HASH")

\* ClarityTx::commit_mined_block(index_block_hash): the block's trie goes to the
\* mined_blocks table under that key.
commit_mined_block(mined, clarity_tx, index_block_hash) ==
    {e \in mined : e.index_block_hash # index_block_hash}
        \cup {[index_block_hash |-> index_block_hash, trie |-> seal(clarity_tx)]}

\* NakamotoBlockBuilder::tenure_finish: the mined_blocks table afterwards and
\* the ExecutionCost consumed.
tenure_finish(mined, clarity_tx) ==
    [mined_blocks |-> commit_mined_block(mined, clarity_tx, MinerIndexBlockHash),
     consumed |-> clarity_tx.cost]

\* --------------------------------------------------------------- proposals
NoProposal == [block |-> NoBlock, tenure_start_block |-> <<NONE, NONE>>, chain_id |-> 0]

\* One unit of an encoded message: what it encodes and the value.
Unit(t, v) == [t |-> t, v |-> v]

\* What read_next returns: the value decoded and the bytes left, or an error.
Decoded(value, rest) == [ok |-> TRUE, value |-> <<value>>, rest |-> rest]
DecodeError(fd) == [ok |-> FALSE, value |-> <<>>, rest |-> fd]

\* write_next and read_next of a u32: four bytes, the most significant first.
write_u32(n) ==
    <<Unit("byte", (n \div 16777216) % 256), Unit("byte", (n \div 65536) % 256),
      Unit("byte", (n \div 256) % 256), Unit("byte", n % 256)>>
read_u32(fd) ==
    IF Len(fd) >= 4 /\ \A i \in 1..4 : fd[i].t = "byte"
    THEN Decoded(((fd[1].v * 256 + fd[2].v) * 256 + fd[3].v) * 256 + fd[4].v,
                 SubSeq(fd, 5, Len(fd)))
    ELSE DecodeError(fd)

\* write_next and read_next of a StacksBlockId.
write_block_id(id) == <<Unit("StacksBlockId", id)>>
read_block_id(fd) ==
    IF Len(fd) >= 1 /\ fd[1].t = "StacksBlockId"
    THEN Decoded(fd[1].v, Tail(fd))
    ELSE DecodeError(fd)

\* write_next and read_next of a NakamotoBlock: the header, then the
\* transactions behind their count.
write_block(b) ==
    <<Unit("NakamotoBlockHeader", b.header)>> \o write_u32(Len(b.txs))
        \o [i \in 1..Len(b.txs) |-> Unit("StacksTransaction", b.txs[i])]
read_block(fd) ==
    LET n == read_u32(Tail(fd))
        count == n.value[1]
    IN IF Len(fd) >= 1 /\ fd[1].t = "NakamotoBlockHeader" /\ n.ok
          /\ Len(n.rest) >= count
          /\ \A i \in 1..count : n.rest[i].t = "StacksTransaction"
       THEN Decoded([header |-> fd[1].v,
                     txs |-> [i \in 1..count |-> n.rest[i].v]],
                    SubSeq(n.rest, count + 1, Len(n.rest)))
       ELSE DecodeError(fd)

\* NakamotoBlockProposal::consensus_serialize: the bytes written to fd.
consensus_serialize(p) ==
    write_block(p.block) \o write_block_id(p.tenure_start_block)
        \o write_u32(p.chain_id)

\* consensus_deserialize that reads tenure_start_block before block: the bytes
\* consensus_serialize wrote do not decode, and C25 fails.
consensus_deserialize_id_first(fd) ==
    LET tenure_start_block == read_block_id(fd)
        b == read_block(tenure_start_block.rest)
        chain_id == read_u32(b.rest)
    IN IF b.ok /\ tenure_start_block.ok /\ chain_id.ok
       THEN <<[block |-> b.value[1],
               tenure_start_block |-> tenure_start_block.value[1],
               chain_id |-> chain_id.value[1]]>>
       ELSE <<>>

\* NakamotoBlockProposal::consensus_deserialize: Ok(proposal), or an error.
consensus_deserialize(fd) ==
    LET b == read_block(fd)
        tenure_start_block == read_block_id(b.rest)
        chain_id == read_u32(tenure_start_block.rest)
    IN IF b.ok /\ tenure_start_block.ok /\ chain_id.ok
       THEN <<[block |-> b.value[1],
               tenure_start_block |-> tenure_start_block.value[1],
               chain_id |-> chain_id.value[1]]>>
       ELSE <<>>

\* Header fields an alteration can hit.
HeaderFields ==
    {"chain_length", "burn_spent", "consensus_hash", "parent_block_id",
     "tx_merkle_root", "state_index_root"}

\* The header with one field changed (bits flipped).
AlterHeader(h, f) ==
    CASE f = "chain_length" -> [h EXCEPT !.chain_length = @ + 1]
      [] f = "burn_spent" -> [h EXCEPT !.burn_spent = @ + 1]
      [] f = "consensus_hash" -> [h EXCEPT !.consensus_hash = "chX"]
      [] f = "parent_block_id" -> [h EXCEPT !.parent_block_id = <<"chX", "bhX">>]
      [] f = "tx_merkle_root" -> [h EXCEPT !.tx_merkle_root = <<"flipped", @>>]
      [] f = "state_index_root" -> [h EXCEPT !.state_index_root = <<"flipped", @>>]

\* NakamotoChainState::validate_nakamoto_block_burnchain(db_handle, expected_burn,
\* block, mainnet, chain_id): the header names a known sortition, spends the
\* expected burn and carries the miner's signature over its signature hash.
validate_nakamoto_block_burnchain(chainstate, expected_burn, block) ==
    /\ block.header.consensus_hash \in chainstate.sortitions
    /\ block.header.burn_spent = expected_burn
    /\ block.header.miner_signature = <<"miner", signature_hash(block.header)>>

\* The network check on the chain id alone: a node whose mainnet flag differs
\* from the proposal's goes on to read storage, and C18 fails.
wrong_network_chain_id_only(chain_id, chainstate) ==
    chain_id # chainstate.chain_id

\* validate's network check: mainnet is self.chain_id == CHAIN_ID_MAINNET, and
\* the proposal is for another network when the chain id or the flag differs.
wrong_network(chain_id, chainstate) ==
    LET mainnet == chain_id = CHAIN_ID_MAINNET
    IN chain_id # chainstate.chain_id \/ mainnet # chainstate.mainnet

\* The static validation checks with their result dropped: a header altered
\* after signing reaches the replay, and C5 fails.
static_validation_checks_ignored(chainstate, expected_burn, block) == NONE

\* validate's "Static validation checks": the error the call returns, or none.
static_validation_checks(chainstate, expected_burn, block) ==
    IF validate_nakamoto_block_burnchain(chainstate, expected_burn, block)
    THEN NONE
    ELSE "InvalidStacksBlock"

\* The replay's match with the builder's tolerance of skips: the loop goes on
\* after a skipped transaction, and C6 fails.
replay_error_skips_allowed(i, kind, error) ==
    CASE kind \in {"Success", "Skipped"} -> <<>>
      [] kind = "ProcessingError" -> <<"Error processing tx", i, error>>
      [] kind = "Problematic" -> <<"Problematic tx", i, error>>

\* validate with a Problematic replay result let through: the loop goes on,
\* the block is finalized with a transaction that did not succeed, and C37
\* fails.
replay_error_problematic_allowed(i, kind, error) ==
    CASE kind \in {"Success", "Problematic"} -> <<>>
      [] kind = "Skipped" -> <<"tx", i, "skipped", error>>
      [] kind = "ProcessingError" -> <<"Error processing tx", i, error>>

\* validate's match on the replay result of transaction i: the reason of the
\* rejection (Err(format!(..))), or nothing (Ok(())).
replay_error(i, kind, error) ==
    CASE kind = "Success" -> <<>>
      [] kind = "Skipped" -> <<"tx", i, "skipped", error>>
      [] kind = "ProcessingError" -> <<"Error processing tx", i, error>>
      [] kind = "Problematic" -> <<"Problematic tx", i, error>>

\* make_nakamoto_block_from_txs with a Problematic result handled as a
\* ProcessingError is: the loop goes on to the next transaction, and C16 fails.
from_txs_error_problematic_dropped(kind, error) ==
    IF kind \in {"Skipped", "ProcessingError"} /\ error = "ProblematicTransaction"
    THEN "ProblematicTransaction"
    ELSE NONE

\* make_nakamoto_block_from_txs's match on the result of one transaction: the
\* error it returns, or none when it goes on to the next transaction.
from_txs_error(kind, error) ==
    CASE kind = "Success" -> NONE
      [] kind \in {"Skipped", "ProcessingError"} ->
            IF error = "ProblematicTransaction" THEN "ProblematicTransaction" ELSE NONE
      [] kind = "Problematic" -> "ProblematicTransaction"

\* find with the last match for the first: a proposal holding two
\* tenure changes is replayed under the cause of the second, and C34 fails.
find_payload_last(txs, variant) ==
    LET hits == {i \in 1..Len(txs) : Payload(txs[i]) = variant}
    IN IF hits = {} THEN NONE
       ELSE txs[CHOOSE i \in hits : \A j \in hits : i >= j]

\* txs.iter().find(|tx| matches!(tx.payload, <variant>)): the first such
\* transaction, or none.
find_payload(txs, variant) ==
    LET hits == {i \in 1..Len(txs) : Payload(txs[i]) = variant}
    IN IF hits = {} THEN NONE
       ELSE txs[CHOOSE i \in hits : \A j \in hits : i <= j]

NoVerdict ==
    [kind |-> "none", code |-> NONE, reason |-> <<>>, block |-> <<>>, size |-> 0,
     cost |-> 0]
Reject(code, reason) ==
    [kind |-> "Reject", code |-> code, reason |-> reason, block |-> <<>>, size |-> 0,
     cost |-> 0]
\* impl From<Error> for BlockValidateReject
RejectFromError(err) == Reject("ChainstateError", <<"Chainstate Error", err>>)
\* Ok with the block as mine_nakamoto_block left it, the signatures of the
\* proposal not on it: C35 fails.
Accept_as_mined(block, cost, size) ==
    [kind |-> "Ok", code |-> NONE, reason |-> <<>>,
     block |-> <<[block EXCEPT !.header.miner_signature = NoSignature,
                               !.header.signer_signature = NoSignature]>>,
     size |-> size, cost |-> cost]

\* Ok(BlockValidateOk { block, cost, size })

Accept(block, cost, size) ==
    [kind |-> "Ok", code |-> NONE, reason |-> <<>>, block |-> <<block>>, size |-> size,
     cost |-> cost]

\* validate did not return: a panic unwound it.
Panicked == [NoVerdict EXCEPT !.kind = "panic"]

\* The replay loop of validate from transaction i on: the builder and the
\* ClarityTx after it, and the reason of the rejection if a transaction failed.
RECURSIVE replay(_, _, _, _)
replay(txs, i, builder, clarity_tx) ==
    IF i = Len(txs)
    THEN [reason |-> <<>>, builder |-> builder, clarity_tx |-> clarity_tx]
    ELSE LET r == try_mine_tx_with_len(builder, clarity_tx, txs[i + 1],
                                       tx_len(txs[i + 1]), "NO_LIMIT_HIT")
             reason == replay_error(i, r.kind, r.error)
         IN IF reason # <<>>
            THEN [reason |-> reason, builder |-> r.builder,
                  clarity_tx |-> r.clarity_tx]
            ELSE replay(txs, i + 1, r.builder, r.clarity_tx)

\* validate from the sealed block on: the signatures copied, the block hashes
\* compared.
validate_compare(p, builder, consumed) ==
    LET replayed ==
            [header |-> [builder.header EXCEPT
                            !.miner_signature = p.block.header.miner_signature,
                            !.signer_signature = p.block.header.signer_signature],
             txs |-> builder.txs]
    IN IF block_hash(replayed.header) # block_hash(p.block.header)
       THEN Reject("BadBlockHash", <<"Block hash is not as expected">>)
       ELSE Accept(replayed, consumed, builder.bytes_so_far)

\* validate from the constructed builder on: load_tenure_info, tenure_begin,
\* the replay loop, mine_nakamoto_block and the comparison.
validate_replay(p, chainstate, builder) ==
    LET tenure_cause ==
            try_as_tenure_change_cause(find_payload(p.block.txs, "TenureChange"))
        l == load_tenure_info(builder, chainstate, tenure_cause)
        t == tenure_begin(builder, l.info, chainstate)
        rp == replay(p.block.txs, 0, t.builder, t.clarity_tx)
        m == mine_nakamoto_block(rp.builder, rp.clarity_tx, chainstate)
    IN CASE l.outcome = "panic" -> Panicked
         [] l.outcome = "err" -> RejectFromError(l.err)
         [] l.outcome = "ok" ->
              IF ~t.ok THEN RejectFromError(t.err)
              ELSE IF rp.reason # <<>> THEN Reject("BadTransaction", rp.reason)
              ELSE IF m.outcome # "ok" THEN Panicked
              ELSE validate_compare(p, m.builder, m.clarity_tx.cost)

\* NakamotoBlockProposal::validate as one function of the proposal and the
\* chain state: what a call returns.
validate(p, chainstate) ==
    LET parent_stacks_header ==
            get_block_header(chainstate, p.block.header.parent_block_id)
        b == new_from_parent(p.tenure_start_block, parent_stacks_header[1],
                             p.block.header.consensus_hash,
                             p.block.header.burn_spent,
                             find_payload(p.block.txs, "TenureChange"),
                             find_payload(p.block.txs, "Coinbase"))
        err == static_validation_checks(chainstate, chainstate.expected_burn,
                                        p.block)
    IN IF wrong_network(p.chain_id, chainstate)
       THEN Reject("InvalidBlock", <<"Wrong netowrk/chain_id">>)
       ELSE IF ~chainstate.sortdb_ok THEN RejectFromError("DBError")
       ELSE IF err # NONE THEN RejectFromError(err)
       ELSE IF parent_stacks_header = <<>>
       THEN Reject("InvalidBlock", <<"Invalid parent block">>)
       ELSE IF ~b.ok THEN RejectFromError(b.err)
       ELSE validate_replay(p, chainstate, b.builder)

\* ------------------------------------------------------------------- state
VARIABLES
    pc,            \* where the run is
    chainstate,    \* the node's chain state (StacksChainState and SortitionDB)
    mined_blocks,  \* the persistent mined_blocks table
    parent_header, \* the parent header the build was given
    tenure_info,   \* the NakamotoTenureInfo the build was given
    builder,       \* the NakamotoBlockBuilder in use
    info,          \* its MinerTenureInfo
    clarity_tx,    \* its open ClarityTx
    last,          \* the latest try_mine_tx_with_len call and what it returned
    admitted,      \* the calls of this builder that returned Success, in order
    effects,       \* storage and oracle operations performed by the current call
    block,         \* the block the build produced
    proposal,      \* the NakamotoBlockProposal under validation
    deviation,     \* how the proposal differs from the signed built block
    mined_before,  \* mined_blocks when validate was entered
    replay_i,      \* validate: index of the next proposal transaction to replay
    build_error,   \* the Error the build returned, if it did
    from_txs,      \* make_nakamoto_block_from_txs: the transactions not yet drained
    wire,          \* the bytes of the proposal as validate's caller received them
    validations,   \* the validate calls in progress when several run at once
    verdict,       \* what validate returned
    offered        \* the transactions the build has handed to try_mine_tx_with_len, in order

vars ==
    <<pc, chainstate, mined_blocks, parent_header, tenure_info, builder, info,
      clarity_tx, last, admitted, effects, block, proposal, deviation, mined_before,
      replay_i, build_error, from_txs, wire, validations, verdict, offered>>

NoTenureInfo == [coinbase_tx |-> NONE, tenure_change_tx |-> NONE]
NoCall ==
    [tx |-> NONE, len |-> 0, limit_behavior |-> NONE, kind |-> NONE, error |-> NONE,
     static_called |-> FALSE, exec_called |-> FALSE, bytes_before |-> 0,
     txs_before |-> <<>>, cost_before |-> 0, cost_after |-> 0, exec_err |-> NONE]

\* Chain states a build is run against: the good one and those that stop it.
BuildChains ==
    {c \in ChainStates :
        c.mainnet = GoodChain.mainnet /\ c.coinbase_height_ok
        /\ c.coinbase_height # <<>>}

Init ==
    /\ pc = "idle"
    /\ chainstate \in BuildChains
    /\ mined_blocks = {}
    /\ parent_header = NakamotoParent
    /\ tenure_info = NoTenureInfo
    /\ builder = NoBuilder
    /\ info = NoInfo
    /\ clarity_tx = NoClarity
    /\ last = NoCall
    /\ admitted = <<>>
    /\ effects = {}
    /\ block = NoBlock
    /\ proposal = NoProposal
    /\ deviation = <<"none">>
    /\ mined_before = {}
    /\ replay_i = 0
    /\ build_error = NONE
    /\ from_txs = <<>>
    /\ wire = <<>>
    /\ offered = <<>>
    /\ validations = <<>>
    /\ verdict = NoVerdict

\* ------------------------------------------------------------- build steps
\* Inputs of an honest build atop `parent`.
TenureIdConsensusHash == "chT"
CoinbaseChoices == {NONE, "cb"}
TenureChangeChoices == {NONE, "tc_bf", "tc_ext"}

\* build_nakamoto_block: new_from_parent(..)?
BuildNewFromParent ==
    /\ pc = "idle"
    /\ \E parent \in Parents, coinbase \in CoinbaseChoices,
          tenure_change \in TenureChangeChoices :
         LET r == new_from_parent(block_id(parent), parent, TenureIdConsensusHash,
                                  chainstate.expected_burn, tenure_change, coinbase)
         IN /\ parent_header' = parent
            /\ tenure_info' = [coinbase_tx |-> coinbase,
                               tenure_change_tx |-> tenure_change]
            /\ builder' = r.builder
            /\ pc' = IF r.ok THEN "b_constructed" ELSE "b_err"
            /\ build_error' = r.err
    /\ UNCHANGED <<offered, wire, validations, from_txs, chainstate, mined_blocks, info, clarity_tx, last, admitted,
                   effects, block, proposal, deviation, mined_before, replay_i,
                   verdict>>

\* build_nakamoto_block: builder.load_tenure_info(.., tenure_info.cause())?
BuildLoadTenureInfo ==
    /\ pc = "b_constructed"
    /\ LET r == load_tenure_info(builder, chainstate, cause(tenure_info))
       IN /\ info' = r.info
          /\ effects' = effects \cup r.effects
          /\ pc' = CASE r.outcome = "ok" -> "b_loaded"
                     [] r.outcome = "err" -> "b_err"
                     [] r.outcome = "panic" -> "panic"
          /\ build_error' = r.err
    /\ UNCHANGED <<offered, wire, validations, from_txs, chainstate, mined_blocks, parent_header, tenure_info, builder,
                   clarity_tx, last, admitted, block, proposal, deviation,
                   mined_before, replay_i, verdict>>

\* build_nakamoto_block: builder.tenure_begin(..)?
BuildTenureBegin ==
    /\ pc = "b_loaded"
    /\ LET r == tenure_begin(builder, info, chainstate)
       IN /\ builder' = r.builder
          /\ clarity_tx' = r.clarity_tx
          /\ effects' = effects \cup {"setup_block"}
          /\ pc' = IF r.ok THEN "b_mining" ELSE "b_err"
          /\ build_error' = r.err
    /\ UNCHANGED <<offered, wire, validations, from_txs, chainstate, mined_blocks, parent_header, tenure_info, info, last,
                   admitted, block, proposal, deviation, mined_before, replay_i,
                   verdict>>

\* The record of one admission call.
CallRecord(b, c, tx, len, limit_behavior, r) ==
    [tx |-> tx, len |-> len, limit_behavior |-> limit_behavior, kind |-> r.kind,
     error |-> r.error, static_called |-> r.static_called,
     exec_called |-> r.exec_called, bytes_before |-> b.bytes_so_far,
     txs_before |-> b.txs, cost_before |-> c.cost, cost_after |-> r.clarity_tx.cost,
     exec_err |-> IF r.exec_called THEN process_transaction(c, tx).err ELSE NONE]

\* Transaction selection offers one transaction to the builder under the
\* current block-limit state.
BuildTryMineTx ==
    /\ pc = "b_mining"
    /\ Len(builder.txs) < MaxTxs
    /\ \E tx \in TXS, limit_behavior \in LimitBehaviors :
         LET r == try_mine_tx_with_len(builder, clarity_tx, tx, tx_len(tx),
                                       limit_behavior)
         IN /\ builder' = r.builder
            /\ clarity_tx' = r.clarity_tx
            /\ last' = CallRecord(builder, clarity_tx, tx, tx_len(tx), limit_behavior, r)
            /\ admitted' = IF r.kind = "Success"
                           THEN Append(admitted, [tx |-> tx, len |-> tx_len(tx)])
                           ELSE admitted
    /\ UNCHANGED <<offered, wire, validations, from_txs, pc, chainstate, mined_blocks, parent_header, tenure_info, info,
                   effects, block, proposal, deviation, mined_before, replay_i,
                   build_error, verdict>>

\* build_nakamoto_block: builder.mine_nakamoto_block(&mut tenure_tx)
BuildMineNakamotoBlock ==
    /\ pc = "b_mining"
    /\ LET r == mine_nakamoto_block(builder, clarity_tx, chainstate)
       IN /\ builder' = r.builder
          /\ clarity_tx' = r.clarity_tx
          /\ block' = r.block
          /\ effects' = effects \cup (IF r.outcome = "ok"
                                      THEN {"finish_block", "seal"}
                                      ELSE {"finish_block"})
          /\ pc' = IF r.outcome = "ok" THEN "b_mined" ELSE "panic"
    /\ UNCHANGED <<offered, wire, validations, from_txs, chainstate, mined_blocks, parent_header, tenure_info, info, last,
                   admitted, proposal, deviation, mined_before, replay_i, build_error,
                   verdict>>

\* build_nakamoto_block: builder.tenure_finish(tenure_tx), then the event
\* observer is told of the mined block.
BuildTenureFinish ==
    /\ pc = "b_mined"
    /\ LET r == tenure_finish(mined_blocks, clarity_tx)
       IN /\ mined_blocks' = r.mined_blocks
          /\ clarity_tx' = [clarity_tx EXCEPT !.open = FALSE]
          /\ effects' = effects \cup {"commit_mined_block",
                                      "mined_nakamoto_block_event"}
          /\ pc' = "b_finished"
    /\ UNCHANGED <<offered, wire, validations, from_txs, chainstate, parent_header, tenure_info, builder, info, last,
                   admitted, block, proposal, deviation, mined_before, replay_i,
                   build_error, verdict>>

\* build_nakamoto_block: transaction selection reports that the caller's
\* abort signal stopped it (blocked), and the build returns.
BuildSelectionBlocked ==
    /\ pc = "b_mining"
    /\ effects' = effects \cup {"blocked"}
    /\ clarity_tx' = [clarity_tx EXCEPT !.open = FALSE]
    /\ pc' = "b_err"
    /\ build_error' = "MinerAborted"
    /\ UNCHANGED <<offered, wire, validations, from_txs, chainstate, mined_blocks, parent_header, tenure_info,
                   builder, info, last, admitted, block, proposal, deviation,
                   mined_before, replay_i, verdict>>

\* The errors transaction selection is taken to fail with.
SelectionErrors == {"DBError", "MemPoolError"}

\* The Err(e) arm with the error swallowed: the build goes on with the block
\* as selection left it, and C23 fails.
selection_failed_ignored(tenure_tx, e) ==
    [effects |-> {"selection_error"}, clarity_tx |-> tenure_tx,
     pc |-> "b_mining", build_error |-> NONE]

\* The Err(e) arm of the match on select_and_apply_transactions:
\* tenure_tx.rollback_block() and return Err(e).
selection_failed(tenure_tx, e) ==
    [effects |-> {"selection_error", "rollback_block"}, clarity_tx |-> NoClarity,
     pc |-> "b_err", build_error |-> e]

\* build_nakamoto_block: transaction selection returns an error.
BuildSelectionFailed ==
    /\ pc = "b_mining"
    /\ "selection_error" \notin effects
    /\ \E e \in SelectionErrors :
         LET r == selection_failed(clarity_tx, e)
         IN /\ effects' = effects \cup r.effects
            /\ clarity_tx' = r.clarity_tx
            /\ pc' = r.pc
            /\ build_error' = r.build_error
    /\ UNCHANGED <<offered, wire, validations, from_txs, chainstate, mined_blocks, parent_header, tenure_info,
                   builder, info, last, admitted, block, proposal, deviation,
                   mined_before, replay_i, verdict>>

\* The transaction lists make_nakamoto_block_from_txs is given.
TxLists == UNION {[1..n -> TXS] : n \in 0..MaxTxs}

\* make_nakamoto_block_from_txs on a constructed builder: the tenure cause
\* found in txs, load_tenure_info and tenure_begin.
FromTxsBegin ==
    /\ pc = "b_constructed"
    /\ \E txs \in TxLists :
         LET tenure_cause ==
                 try_as_tenure_change_cause(find_payload(txs, "TenureChange"))
             r == load_tenure_info(builder, chainstate, tenure_cause)
             b == tenure_begin(builder, r.info, chainstate)
         IN /\ from_txs' = <<txs>>
            /\ info' = r.info
            /\ CASE r.outcome = "panic" ->
                      /\ pc' = "panic"
                      /\ effects' = effects \cup r.effects
                      /\ UNCHANGED <<builder, clarity_tx, build_error>>
                 [] r.outcome = "err" ->
                      /\ pc' = "b_err"
                      /\ build_error' = r.err
                      /\ effects' = effects \cup r.effects
                      /\ UNCHANGED <<builder, clarity_tx>>
                 [] r.outcome = "ok" ->
                      /\ effects' = effects \cup r.effects \cup {"setup_block"}
                      /\ builder' = b.builder
                      /\ clarity_tx' = b.clarity_tx
                      /\ pc' = IF b.ok THEN "f_mining" ELSE "b_err"
                      /\ build_error' = b.err
    /\ UNCHANGED <<offered, wire, validations, chainstate, mined_blocks, parent_header, tenure_info, last,
                   admitted, block, proposal, deviation, mined_before, replay_i,
                   verdict>>

\* make_nakamoto_block_from_txs: one iteration of `for tx in txs.drain(..)`.
FromTxsTryMineTx ==
    /\ pc = "f_mining"
    /\ from_txs[1] # <<>>
    /\ LET tx == Head(from_txs[1])
           r == try_mine_tx_with_len(builder, clarity_tx, tx, tx_len(tx),
                                     "NO_LIMIT_HIT")
           err == from_txs_error(r.kind, r.error)
       IN /\ builder' = r.builder
          /\ clarity_tx' = r.clarity_tx
          /\ last' = CallRecord(builder, clarity_tx, tx, tx_len(tx), "NO_LIMIT_HIT", r)
          /\ admitted' = IF r.kind = "Success"
                         THEN Append(admitted, [tx |-> tx, len |-> tx_len(tx)])
                         ELSE admitted
          /\ from_txs' = <<Tail(from_txs[1])>>
          /\ IF err = NONE
             THEN pc' = pc /\ build_error' = build_error
             ELSE pc' = "b_err" /\ build_error' = err
    /\ UNCHANGED <<offered, wire, validations, chainstate, mined_blocks, parent_header, tenure_info, info,
                   effects, block, proposal, deviation, mined_before, replay_i,
                   verdict>>

\* make_nakamoto_block_from_txs after the loop: mine_nakamoto_block, then
\* tenure_finish.
FromTxsFinish ==
    /\ pc = "f_mining"
    /\ from_txs[1] = <<>>
    /\ LET r == mine_nakamoto_block(builder, clarity_tx, chainstate)
           f == tenure_finish(mined_blocks, r.clarity_tx)
       IN /\ builder' = r.builder
          /\ block' = r.block
          /\ IF r.outcome = "ok"
             THEN /\ mined_blocks' = f.mined_blocks
                  /\ clarity_tx' = [r.clarity_tx EXCEPT !.open = FALSE]
                  /\ effects' = effects \cup {"finish_block", "seal",
                                              "commit_mined_block"}
                  /\ pc' = "b_finished"
             ELSE /\ mined_blocks' = mined_blocks
                  /\ clarity_tx' = r.clarity_tx
                  /\ effects' = effects \cup {"finish_block"}
                  /\ pc' = "panic"
    /\ UNCHANGED <<offered, wire, validations, from_txs, chainstate, parent_header, tenure_info, info, last,
                   admitted, proposal, deviation, mined_before, replay_i, build_error,
                   verdict>>

BuildNext ==
    \/ BuildNewFromParent
    \/ BuildLoadTenureInfo
    \/ BuildTenureBegin
    \/ BuildTryMineTx
    \/ BuildSelectionBlocked
    \/ BuildSelectionFailed
    \/ BuildMineNakamotoBlock
    \/ BuildTenureFinish
    \/ FromTxsBegin
    \/ FromTxsTryMineTx
    \/ FromTxsFinish

\* ---------------------------------------------------------- proposal steps
\* The built block is wrapped in a proposal and handed to validate: the
\* builder's handles are gone, validate starts from nothing.
Submit(p, how, cs) ==
    /\ pc \in {"b_mined", "b_finished"}
    /\ proposal' = p
    /\ deviation' = how
    /\ chainstate' = cs
    /\ pc' = "proposed"
    /\ builder' = NoBuilder
    /\ info' = NoInfo
    /\ clarity_tx' = NoClarity
    /\ last' = NoCall
    /\ admitted' = <<>>
    /\ effects' = {}
    /\ mined_before' = mined_blocks
    /\ replay_i' = 0
    /\ from_txs' = <<>>
    /\ wire' = consensus_serialize(p)
    /\ UNCHANGED <<offered, validations, mined_blocks, parent_header, tenure_info, block, build_error,
                   verdict>>

\* The proposal the miner makes of its block: tenure_start_block is the parent
\* block id, chain_id the node's.
HonestProposal(h) ==
    [block |-> [header |-> h, txs |-> block.txs],
     tenure_start_block |-> block_id(parent_header),
     chain_id |-> chainstate.chain_id]

\* "Valid Nakamoto block proposal": sign(proposal.clone())
ProposeSigned ==
    Submit(HonestProposal(sign(block.header)), <<"none">>, chainstate)

\* The signed proposal reaches a node whose chain state differs.
ProposeElsewhere ==
    \E cs \in ChainStates \ {chainstate} :
        Submit(HonestProposal(sign(block.header)), <<"elsewhere">>, cs)

\* "Corrupted (bit flipped after signing)": a header field altered after signing.
ProposeCorrupted ==
    \E f \in HeaderFields :
        Submit(HonestProposal(AlterHeader(sign(block.header), f)),
               <<"corrupted", f>>, chainstate)

\* A miner that alters a header field of its block and then signs it.
ProposeForged ==
    \E f \in HeaderFields :
        Submit(HonestProposal(sign(AlterHeader(block.header, f))),
               <<"forged", f>>, chainstate)

\* `txs` with `tx` put in after its first k transactions.
InsertAt(txs, k, tx) ==
    SubSeq(txs, 1, k) \o <<tx>> \o SubSeq(txs, k + 1, Len(txs))

\* A miner that puts one more transaction into its block, keeps the header and
\* signs.
ProposeExtraTx ==
    \E tx \in TXS, k \in 0..Len(block.txs) :
        Submit([HonestProposal(sign(block.header)) EXCEPT
                    !.block.txs = InsertAt(@, k, tx)],
               <<"extra_tx", tx, k>>, chainstate)

\* "Invalid `tenure_start_block`": the field altered, the block then signed.
ProposeInvalidTenureStart ==
    Submit([HonestProposal(sign(block.header)) EXCEPT
                !.tenure_start_block = <<"chX", "bhX">>],
           <<"tenure_start_block">>, chainstate)

\* A proposal for another chain.
ProposeWrongChainId ==
    \E id \in {CHAIN_ID_MAINNET, CHAIN_ID_TESTNET} \ {chainstate.chain_id} :
        Submit([HonestProposal(sign(block.header)) EXCEPT !.chain_id = id],
               <<"chain_id">>, chainstate)

\* A proposal nobody signed.
ProposeUnsigned ==
    Submit(HonestProposal(block.header), <<"unsigned">>, chainstate)

ProposeNext ==
    \/ ProposeSigned
    \/ ProposeElsewhere
    \/ ProposeCorrupted
    \/ ProposeForged
    \/ ProposeExtraTx
    \/ ProposeInvalidTenureStart
    \/ ProposeWrongChainId
    \/ ProposeUnsigned

\* ---------------------------------------------------------- validate steps
\* validate returns `v`.
Return(v) ==
    /\ verdict' = v
    /\ pc' = "done"

\* validate: the chain id check.
ValidateChainId ==
    /\ pc = "proposed"
    /\ IF wrong_network(proposal.chain_id, chainstate)
       THEN Return(Reject("InvalidBlock", <<"Wrong netowrk/chain_id">>))
       ELSE pc' = "v_static" /\ verdict' = verdict
    /\ UNCHANGED <<offered, wire, validations, from_txs, chainstate, mined_blocks, parent_header, tenure_info, builder, info,
                   clarity_tx, last, admitted, effects, block, proposal, deviation,
                   mined_before, replay_i, build_error>>

\* validate: the sortition tip, the expected burns and the static checks.
ValidateStatic ==
    /\ pc = "v_static"
    /\ IF ~chainstate.sortdb_ok
       THEN /\ Return(RejectFromError("DBError"))
            /\ effects' = effects \cup {"sortdb_read"}
       ELSE /\ effects' = effects \cup {"sortdb_read", "get_expected_burns",
                                        "static_check"}
            /\ LET err == static_validation_checks(
                              chainstate, chainstate.expected_burn, proposal.block)
               IN IF err = NONE
                  THEN pc' = "v_parent" /\ verdict' = verdict
                  ELSE Return(RejectFromError(err))
    /\ UNCHANGED <<offered, wire, validations, from_txs, chainstate, mined_blocks, parent_header, tenure_info, builder, info,
                   clarity_tx, last, admitted, block, proposal, deviation,
                   mined_before, replay_i, build_error>>

\* validate: the parent header, the tenure transactions found in the block,
\* and new_from_parent.
ValidateNewFromParent ==
    /\ pc = "v_parent"
    /\ effects' = effects \cup {"get_block_header"}
    /\ LET parent_stacks_header ==
               get_block_header(chainstate, proposal.block.header.parent_block_id)
           tenure_change == find_payload(proposal.block.txs, "TenureChange")
           coinbase == find_payload(proposal.block.txs, "Coinbase")
       IN IF parent_stacks_header = <<>>
          THEN /\ Return(Reject("InvalidBlock", <<"Invalid parent block">>))
               /\ builder' = builder
          ELSE LET r == new_from_parent(
                            proposal.tenure_start_block, parent_stacks_header[1],
                            proposal.block.header.consensus_hash,
                            proposal.block.header.burn_spent, tenure_change, coinbase)
               IN IF r.ok
                  THEN builder' = r.builder /\ pc' = "v_constructed"
                       /\ verdict' = verdict
                  ELSE builder' = builder /\ Return(RejectFromError(r.err))
    /\ UNCHANGED <<offered, wire, validations, from_txs, chainstate, mined_blocks, parent_header, tenure_info, info,
                   clarity_tx, last, admitted, block, proposal, deviation,
                   mined_before, replay_i, build_error>>

\* validate: builder.load_tenure_info(chainstate, &burn_dbconn, tenure_cause)?
ValidateLoadTenureInfo ==
    /\ pc = "v_constructed"
    /\ LET tenure_cause ==
               try_as_tenure_change_cause(
                   find_payload(proposal.block.txs, "TenureChange"))
           r == load_tenure_info(builder, chainstate, tenure_cause)
       IN /\ info' = r.info
          /\ effects' = effects \cup r.effects
          /\ CASE r.outcome = "ok" -> pc' = "v_loaded" /\ verdict' = verdict
               [] r.outcome = "err" -> Return(RejectFromError(r.err))
               [] r.outcome = "panic" -> pc' = "panic" /\ verdict' = verdict
    /\ UNCHANGED <<offered, wire, validations, from_txs, chainstate, mined_blocks, parent_header, tenure_info, builder,
                   clarity_tx, last, admitted, block, proposal, deviation,
                   mined_before, replay_i, build_error>>

\* validate: builder.tenure_begin(&burn_dbconn, &mut miner_tenure_info)?
ValidateTenureBegin ==
    /\ pc = "v_loaded"
    /\ LET r == tenure_begin(builder, info, chainstate)
       IN /\ builder' = r.builder
          /\ clarity_tx' = r.clarity_tx
          /\ effects' = effects \cup {"setup_block"}
          /\ IF r.ok THEN pc' = "v_replay" /\ verdict' = verdict
             ELSE Return(RejectFromError(r.err))
    /\ UNCHANGED <<offered, wire, validations, from_txs, chainstate, mined_blocks, parent_header, tenure_info, info, last,
                   admitted, block, proposal, deviation, mined_before, replay_i,
                   build_error>>

\* validate: one iteration of the replay loop.
ValidateTx ==
    /\ pc = "v_replay"
    /\ replay_i < Len(proposal.block.txs)
    /\ LET tx == proposal.block.txs[replay_i + 1]
           r == try_mine_tx_with_len(builder, clarity_tx, tx, tx_len(tx),
                                     "NO_LIMIT_HIT")
       IN /\ builder' = r.builder
          /\ clarity_tx' = r.clarity_tx
          /\ last' = CallRecord(builder, clarity_tx, tx, tx_len(tx), "NO_LIMIT_HIT", r)
          /\ admitted' = IF r.kind = "Success"
                         THEN Append(admitted, [tx |-> tx, len |-> tx_len(tx)])
                         ELSE admitted
          /\ LET reason == replay_error(replay_i, r.kind, r.error)
             IN IF reason = <<>>
                THEN /\ replay_i' = replay_i + 1
                     /\ pc' = pc
                     /\ verdict' = verdict
                ELSE /\ replay_i' = replay_i
                     /\ Return(Reject("BadTransaction", reason))
    /\ UNCHANGED <<offered, wire, validations, from_txs, chainstate, mined_blocks, parent_header, tenure_info, info,
                   effects, block, proposal, deviation, mined_before, build_error>>

\* validate: builder.mine_nakamoto_block(&mut tenure_tx), after the loop.
ValidateMineNakamotoBlock ==
    /\ pc = "v_replay"
    /\ replay_i = Len(proposal.block.txs)
    /\ LET r == mine_nakamoto_block(builder, clarity_tx, chainstate)
       IN /\ builder' = r.builder
          /\ clarity_tx' = r.clarity_tx
          /\ effects' = effects \cup (IF r.outcome = "ok"
                                      THEN {"finish_block", "seal"}
                                      ELSE {"finish_block"})
          /\ pc' = IF r.outcome = "ok" THEN "v_mined" ELSE "panic"
    /\ UNCHANGED <<offered, wire, validations, from_txs, chainstate, mined_blocks, parent_header, tenure_info, info, last,
                   admitted, block, proposal, deviation, mined_before, replay_i,
                   build_error, verdict>>

\* The replayed block under the proposal's whole header: the comparison of
\* the hashes always succeeds, and C7 fails.
WithProposalHeader(h) == proposal.block.header

\* The replayed block left unsigned: no signed block validates, and C1 fails.
WithoutProposalSignatures(h) == h

\* The replayed block under the proposal's signatures.
WithProposalSignatures(h) ==
    [h EXCEPT !.miner_signature = proposal.block.header.miner_signature,
              !.signer_signature = proposal.block.header.signer_signature]

\* validate: tenure_finish, the signatures copied, the block hashes compared.
ValidateFinish ==
    /\ pc = "v_mined"
    /\ LET size == builder.bytes_so_far
           r == tenure_finish(mined_blocks, clarity_tx)
           replayed == [header |-> WithProposalSignatures(builder.header),
                        txs |-> builder.txs]
           expected_block_header_hash == block_hash(proposal.block.header)
           computed_block_header_hash == block_hash(replayed.header)
       IN /\ mined_blocks' = r.mined_blocks
          /\ clarity_tx' = [clarity_tx EXCEPT !.open = FALSE]
          /\ effects' = effects \cup {"commit_mined_block"}
          /\ IF computed_block_header_hash # expected_block_header_hash
             THEN Return(Reject("BadBlockHash", <<"Block hash is not as expected">>))
             ELSE Return(Accept(replayed, r.consumed, size))
    /\ UNCHANGED <<offered, wire, validations, from_txs, chainstate, parent_header, tenure_info, builder, info, last,
                   admitted, block, proposal, deviation, mined_before, replay_i,
                   build_error>>

ValidateNext ==
    \/ ValidateChainId
    \/ ValidateStatic
    \/ ValidateNewFromParent
    \/ ValidateLoadTenureInfo
    \/ ValidateTenureBegin
    \/ ValidateTx
    \/ ValidateMineNakamotoBlock
    \/ ValidateFinish

Next ==
    \/ BuildNewFromParent
    \/ BuildLoadTenureInfo
    \/ BuildTenureBegin
    \/ BuildTryMineTx
    \/ BuildMineNakamotoBlock
    \/ BuildTenureFinish
    \/ BuildSelectionBlocked
    \/ BuildSelectionFailed
    \/ FromTxsBegin
    \/ FromTxsTryMineTx
    \/ FromTxsFinish
    \/ ProposeSigned
    \/ ProposeElsewhere
    \/ ProposeCorrupted
    \/ ProposeForged
    \/ ProposeExtraTx
    \/ ProposeInvalidTenureStart
    \/ ProposeWrongChainId
    \/ ProposeUnsigned
    \/ ValidateChainId
    \/ ValidateStatic
    \/ ValidateNewFromParent
    \/ ValidateLoadTenureInfo
    \/ ValidateTenureBegin
    \/ ValidateTx
    \/ ValidateMineNakamotoBlock
    \/ ValidateFinish

Spec == Init /\ [][Next]_vars

\* ------------------------------------------------- concurrent validations
\* The signed block of a build that continues the tenure atop the Nakamoto parent
\* and admits `txs`, as block_proposal_api_endpoint makes the block it proposes.
built(txs) ==
    LET b == continue_tenure_from_nakamoto_parent(
                 NakamotoParent, TenureIdConsensusHash, GoodChain.expected_burn, NONE)
        l == load_tenure_info(b, GoodChain, try_as_tenure_change_cause(NONE))
        t == tenure_begin(b, l.info, GoodChain)
        rp == replay(txs, 0, t.builder, t.clarity_tx)
        m == mine_nakamoto_block(rp.builder, rp.clarity_tx, GoodChain)
    IN [header |-> sign(m.block.header), txs |-> m.block.txs]

\* The proposal of a block on the good chain.
ProposalOf(b) ==
    [block |-> b, tenure_start_block |-> block_id(NakamotoParent),
     chain_id |-> GoodChain.chain_id]

\* The proposals validated at once: four valid ones, one with a transaction
\* put in after signing, one whose only transaction is problematic, and one
\* for another chain.
ConcurrentProposals ==
    {ProposalOf(built(txs)) :
        txs \in {<<>>, <<"xfer">>, <<"boot">>, <<"xfer", "boot">>}}
    \cup {[ProposalOf(built(<<"xfer">>)) EXCEPT !.block.txs = <<"boot", "xfer">>],
          [ProposalOf(built(<<>>)) EXCEPT !.block.txs = <<"bad">>],
          [ProposalOf(built(<<"boot">>)) EXCEPT !.chain_id = CHAIN_ID_MAINNET]}

\* One validate call: where it is, its builder and ClarityTx, what it has
\* written to the mined_blocks table and what it returned.
Validation(p) ==
    [pc |-> "start", proposal |-> p, builder |-> NoBuilder, clarity_tx |-> NoClarity,
     replay_i |-> 0, wrote |-> {}, verdict |-> NoVerdict]

\* validate up to the open block: the checks, new_from_parent,
\* load_tenure_info and tenure_begin.  The verdict is NoVerdict when the
\* block is open.
validate_open(p, cs) ==
    LET parent_stacks_header == get_block_header(cs, p.block.header.parent_block_id)
        b == new_from_parent(p.tenure_start_block, parent_stacks_header[1],
                             p.block.header.consensus_hash,
                             p.block.header.burn_spent,
                             find_payload(p.block.txs, "TenureChange"),
                             find_payload(p.block.txs, "Coinbase"))
        err == static_validation_checks(cs, cs.expected_burn, p.block)
        l == load_tenure_info(
                 b.builder, cs,
                 try_as_tenure_change_cause(find_payload(p.block.txs, "TenureChange")))
        t == tenure_begin(b.builder, l.info, cs)
        stop(v) == [verdict |-> v, builder |-> NoBuilder, clarity_tx |-> NoClarity]
    IN IF wrong_network(p.chain_id, cs)
       THEN stop(Reject("InvalidBlock", <<"Wrong netowrk/chain_id">>))
       ELSE IF ~cs.sortdb_ok THEN stop(RejectFromError("DBError"))
       ELSE IF err # NONE THEN stop(RejectFromError(err))
       ELSE IF parent_stacks_header = <<>>
       THEN stop(Reject("InvalidBlock", <<"Invalid parent block">>))
       ELSE IF ~b.ok THEN stop(RejectFromError(b.err))
       ELSE IF l.outcome = "panic" THEN stop(Panicked)
       ELSE IF l.outcome = "err" THEN stop(RejectFromError(l.err))
       ELSE IF ~t.ok THEN stop(RejectFromError(t.err))
       ELSE [verdict |-> NoVerdict, builder |-> t.builder, clarity_tx |-> t.clarity_tx]

\* Two validate calls on different proposals, on one node.
ConcurrentInit ==
    /\ pc = "concurrent"
    /\ chainstate = GoodChain
    /\ mined_blocks = {}
    /\ parent_header = NakamotoParent
    /\ tenure_info = NoTenureInfo
    /\ builder = NoBuilder
    /\ info = NoInfo
    /\ clarity_tx = NoClarity
    /\ last = NoCall
    /\ admitted = <<>>
    /\ effects = {}
    /\ block = NoBlock
    /\ proposal = NoProposal
    /\ deviation = <<"none">>
    /\ mined_before = {}
    /\ replay_i = 0
    /\ build_error = NONE
    /\ from_txs = <<>>
    /\ wire = <<>>
    /\ offered = <<>>
    /\ verdict = NoVerdict
    /\ \E p, q \in ConcurrentProposals :
          /\ p # q
          /\ validations = <<Validation(p), Validation(q)>>

\* What a step of one of the calls leaves alone.
OthersUnchanged ==
    UNCHANGED <<offered, pc, chainstate, parent_header, tenure_info, builder, info, clarity_tx,
                last, admitted, effects, block, proposal, deviation, mined_before,
                replay_i, build_error, from_txs, wire, verdict>>

\* Call i opens its scratch block, or returns a rejection.
ConcurrentOpen(i) ==
    /\ validations[i].pc = "start"
    /\ LET r == validate_open(validations[i].proposal, chainstate)
       IN validations' =
              [validations EXCEPT
                  ![i].pc = IF r.verdict = NoVerdict THEN "replay" ELSE "done",
                  ![i].verdict = r.verdict,
                  ![i].builder = r.builder,
                  ![i].clarity_tx = r.clarity_tx]
    /\ UNCHANGED mined_blocks
    /\ OthersUnchanged

\* Call i replays the next transaction of its proposal.
ConcurrentReplay(i) ==
    /\ validations[i].pc = "replay"
    /\ validations[i].replay_i < Len(validations[i].proposal.block.txs)
    /\ LET v == validations[i]
           tx == v.proposal.block.txs[v.replay_i + 1]
           r == try_mine_tx_with_len(v.builder, v.clarity_tx, tx, tx_len(tx),
                                     "NO_LIMIT_HIT")
           reason == replay_error(v.replay_i, r.kind, r.error)
       IN validations' =
              [validations EXCEPT
                  ![i].builder = r.builder,
                  ![i].clarity_tx = r.clarity_tx,
                  ![i].replay_i = IF reason = <<>> THEN @ + 1 ELSE @,
                  ![i].pc = IF reason = <<>> THEN "replay" ELSE "done",
                  ![i].verdict = IF reason = <<>> THEN @
                                 ELSE Reject("BadTransaction", reason)]
    /\ UNCHANGED mined_blocks
    /\ OthersUnchanged

\* Call i seals its block: mine_nakamoto_block.
ConcurrentSeal(i) ==
    /\ validations[i].pc = "replay"
    /\ validations[i].replay_i = Len(validations[i].proposal.block.txs)
    /\ LET v == validations[i]
           r == mine_nakamoto_block(v.builder, v.clarity_tx, chainstate)
       IN validations' =
              [validations EXCEPT
                  ![i].builder = r.builder,
                  ![i].clarity_tx = r.clarity_tx,
                  ![i].pc = IF r.outcome = "ok" THEN "sealed" ELSE "done",
                  ![i].verdict = IF r.outcome = "ok" THEN @ ELSE Panicked]
    /\ UNCHANGED mined_blocks
    /\ OthersUnchanged

\* Call i runs tenure_finish: its trie goes to the mined_blocks table.
ConcurrentTenureFinish(i) ==
    /\ validations[i].pc = "sealed"
    /\ LET r == tenure_finish(mined_blocks, validations[i].clarity_tx)
       IN /\ mined_blocks' = r.mined_blocks
          /\ validations' =
                 [validations EXCEPT
                     ![i].pc = "finished",
                     ![i].wrote = r.mined_blocks \ mined_blocks,
                     ![i].clarity_tx = [@ EXCEPT !.open = FALSE]]
    /\ OthersUnchanged

\* Call i copies the signatures, compares the block hashes and returns.
ConcurrentCompare(i) ==
    /\ validations[i].pc = "finished"
    /\ LET v == validations[i]
       IN validations' =
              [validations EXCEPT
                  ![i].pc = "done",
                  ![i].verdict = validate_compare(v.proposal, v.builder,
                                                  v.clarity_tx.cost)]
    /\ UNCHANGED mined_blocks
    /\ OthersUnchanged

ConcurrentNext ==
    \E i \in 1..2 :
        \/ ConcurrentOpen(i)
        \/ ConcurrentReplay(i)
        \/ ConcurrentSeal(i)
        \/ ConcurrentTenureFinish(i)
        \/ ConcurrentCompare(i)

ConcurrentSpec == ConcurrentInit /\ [][ConcurrentNext]_vars

\* ------------------------------------------- admission with any tx_len
\* The tx_len arguments a caller of try_mine_tx_with_len passes: lengths of
\* transactions, lengths at the byte budget and lengths at the top of u64.
AdmissionLens ==
    {180, MAX_EPOCH_SIZE - 180, MAX_EPOCH_SIZE, U64_MAX - 179, U64_MAX}

\* The two builds of the program: with overflow checks, where an overflowing
\* u64 addition panics, and without, where it wraps.
AdmissionBuilds == {"a_overflow_checks", "a_wrapping"}

\* A builder that continues the tenure atop the Nakamoto parent, its tenure
\* begun, in either build.
AdmissionInit ==
    LET b == continue_tenure_from_nakamoto_parent(
                 NakamotoParent, TenureIdConsensusHash, GoodChain.expected_burn, NONE)
        l == load_tenure_info(b, GoodChain, try_as_tenure_change_cause(NONE))
        t == tenure_begin(b, l.info, GoodChain)
    IN /\ pc \in AdmissionBuilds
       /\ chainstate = GoodChain
       /\ mined_blocks = {}
       /\ parent_header = NakamotoParent
       /\ tenure_info = NoTenureInfo
       /\ builder = t.builder
       /\ info = l.info
       /\ clarity_tx = t.clarity_tx
       /\ last = NoCall
       /\ admitted = <<>>
       /\ effects = {}
       /\ block = NoBlock
       /\ proposal = NoProposal
       /\ deviation = <<"none">>
       /\ mined_before = {}
       /\ replay_i = 0
       /\ build_error = NONE
       /\ from_txs = <<>>
       /\ wire = <<>>
       /\ offered = <<>>
       /\ validations = <<>>
       /\ verdict = NoVerdict

\* try_mine_tx_with_len(clarity_tx, tx, tx_len, limit_behavior, ast_rules) with
\* a tx_len of the caller's choice, where the sum of the byte budget check
\* does not panic.
AdmissionCall ==
    /\ pc \in AdmissionBuilds
    /\ Len(builder.txs) < MaxTxs
    /\ \E tx \in TXS, len \in AdmissionLens, limit_behavior \in LimitBehaviors :
         /\ pc = "a_overflow_checks" => ~add_overflows(builder.bytes_so_far, len)
         /\ LET r == try_mine_tx_with_len(builder, clarity_tx, tx, len, limit_behavior)
            IN /\ builder' = r.builder
               /\ clarity_tx' = r.clarity_tx
               /\ last' = CallRecord(builder, clarity_tx, tx, len, limit_behavior, r)
               /\ admitted' = IF r.kind = "Success"
                              THEN Append(admitted, [tx |-> tx, len |-> len])
                              ELSE admitted
    /\ UNCHANGED <<offered, pc, chainstate, mined_blocks, parent_header, tenure_info, info,
                   effects, block, proposal, deviation, mined_before, replay_i,
                   build_error, from_txs, wire, validations, verdict>>

\* try_mine_tx_with_len in a build with overflow checks, called with a tx_len
\* whose sum with bytes_so_far leaves u64: "attempt to add with overflow".
AdmissionPanic ==
    /\ pc = "a_overflow_checks"
    /\ Len(builder.txs) < MaxTxs
    /\ \E tx \in TXS, len \in AdmissionLens, limit_behavior \in LimitBehaviors :
         /\ add_overflows(builder.bytes_so_far, len)
         /\ last' = [NoCall EXCEPT !.tx = tx, !.len = len,
                                   !.limit_behavior = limit_behavior,
                                   !.kind = "panic",
                                   !.bytes_before = builder.bytes_so_far,
                                   !.txs_before = builder.txs,
                                   !.cost_before = clarity_tx.cost,
                                   !.cost_after = clarity_tx.cost]
    /\ pc' = "panic"
    /\ UNCHANGED <<offered, chainstate, mined_blocks, parent_header, tenure_info, builder,
                   info, clarity_tx, admitted, effects, block, proposal, deviation,
                   mined_before, replay_i, build_error, from_txs, wire, validations,
                   verdict>>

AdmissionNext ==
    \/ AdmissionCall
    \/ AdmissionPanic

AdmissionSpec == AdmissionInit /\ [][AdmissionNext]_vars

\* ------------------------------------- build_nakamoto_block: the selection
\* Where an offered transaction came from.
Offer(tx, from) == [tx |-> tx, from |-> from]

\* StacksBlockBuilder::select_and_apply_transactions(.., &initial_txs, ..): the
\* next of the initial transactions goes to try_mine_tx, which passes its
\* tx_len() and NO_LIMIT_HIT.
SelectInitialTx ==
    /\ pc = "b_mining"
    /\ Len(offered) < Len(initial_txs(tenure_info))
    /\ LET tx == initial_txs(tenure_info)[Len(offered) + 1]
           r == try_mine_tx_with_len(builder, clarity_tx, tx, tx_len(tx),
                                     "NO_LIMIT_HIT")
       IN /\ builder' = r.builder
          /\ clarity_tx' = r.clarity_tx
          /\ last' = CallRecord(builder, clarity_tx, tx, tx_len(tx), "NO_LIMIT_HIT", r)
          /\ admitted' = IF r.kind = "Success"
                         THEN Append(admitted, [tx |-> tx, len |-> tx_len(tx)])
                         ELSE admitted
          /\ offered' = Append(offered, Offer(tx, "initial_txs"))
    /\ UNCHANGED <<pc, chainstate, mined_blocks, parent_header, tenure_info, info,
                   effects, block, proposal, deviation, mined_before, replay_i,
                   build_error, from_txs, wire, validations, verdict>>

\* select_and_apply_transactions: the initial transactions done, a candidate
\* of the mempool goes to try_mine_tx_with_len under the limit state of the
\* selection.
SelectMempoolTx ==
    /\ pc = "b_mining"
    /\ Len(offered) >= Len(initial_txs(tenure_info))
    /\ Len(offered) - Len(initial_txs(tenure_info)) < MaxTxs
    /\ \E tx \in TXS, limit_behavior \in LimitBehaviors :
         LET r == try_mine_tx_with_len(builder, clarity_tx, tx, tx_len(tx),
                                       limit_behavior)
         IN /\ builder' = r.builder
            /\ clarity_tx' = r.clarity_tx
            /\ last' = CallRecord(builder, clarity_tx, tx, tx_len(tx), limit_behavior, r)
            /\ admitted' = IF r.kind = "Success"
                           THEN Append(admitted, [tx |-> tx, len |-> tx_len(tx)])
                           ELSE admitted
            /\ offered' = Append(offered, Offer(tx, "mempool"))
    /\ UNCHANGED <<pc, chainstate, mined_blocks, parent_header, tenure_info, info,
                   effects, block, proposal, deviation, mined_before, replay_i,
                   build_error, from_txs, wire, validations, verdict>>

SelectionNext ==
    \/ BuildNewFromParent
    \/ BuildLoadTenureInfo
    \/ BuildTenureBegin
    \/ SelectInitialTx
    \/ SelectMempoolTx

SelectionSpec == Init /\ [][SelectionNext]_vars

\* ------------------------------------------------------------------ claims
\* validate has been called on a proposal.
Validating == proposal # NoProposal

\* The transactions of a log of Success calls, in call order.
TxsOf(calls) == [i \in 1..Len(calls) |-> calls[i].tx]

\* The sum of the tx_len arguments of a log of Success calls.
RECURSIVE SumLen(_)
SumLen(calls) ==
    IF calls = <<>> THEN 0 ELSE calls[1].len + SumLen(Tail(calls))

\* The miner's tenure intent is what validate finds in the block: the first
\* TenureChange and the first Coinbase among its transactions are the
\* tenure_change and coinbase the builder was constructed with.
IntentEmbedded ==
    /\ find_payload(block.txs, "TenureChange") = tenure_info.tenure_change_tx
    /\ find_payload(block.txs, "Coinbase") = tenure_info.coinbase_tx

\* C1 as stated: every block the builder pipeline produces, signed and
\* proposed on the same chain state, is accepted by validate.
C1_EveryBuiltBlockValidates ==
    (Validating /\ deviation = <<"none">> /\ pc \in {"done", "panic"})
        => (pc = "done" /\ verdict.kind = "Ok")

\* C1 amended: a block the builder pipeline produces whose transactions embed
\* the tenure intent it was built with, signed and proposed on the same chain
\* state, is accepted by validate (Ok, never Reject, never a panic).
C1_BuiltBlockWithEmbeddedIntentValidates ==
    (Validating /\ deviation = <<"none">> /\ IntentEmbedded
     /\ pc \in {"done", "panic"})
        => (pc = "done" /\ verdict.kind = "Ok"
            /\ verdict.block[1].txs = block.txs)

\* C1 witness: a new-tenure block [tenure change, coinbase] is accepted.
C1_Witness ==
    /\ pc = "done"
    /\ deviation = <<"none">>
    /\ IntentEmbedded
    /\ tenure_info.tenure_change_tx # NONE
    /\ tenure_info.coinbase_tx # NONE
    /\ Len(block.txs) = 2
    /\ verdict.kind = "Ok"

\* C2: on one builder, bytes_so_far is the sum of the tx_len arguments of the
\* calls that returned Success and txs is the sequence of their transactions
\* in call order; bytes_so_far never decreases across a call, and a call that
\* returns Skipped, ProcessingError or Problematic changes neither.
C2_BytesAndTxsFollowSuccesses ==
    /\ builder.bytes_so_far = SumLen(admitted)
    /\ builder.txs = TxsOf(admitted)
    /\ last.tx # NONE =>
         /\ builder.bytes_so_far >= last.bytes_before
         /\ last.kind = "Success" =>
              /\ builder.bytes_so_far = last.bytes_before + last.len
              /\ builder.txs = Append(last.txs_before, last.tx)
         /\ last.kind # "Success" =>
              /\ builder.bytes_so_far = last.bytes_before
              /\ builder.txs = last.txs_before

\* C2 witness: after one Success, a call is skipped for its size.
C2_Witness ==
    /\ Len(admitted) = 1
    /\ builder.bytes_so_far = admitted[1].len
    /\ last.kind = "Skipped"
    /\ last.error = "BlockTooBigError"
    /\ last.len > 0

\* C3: every call made with limit_behavior LIMIT_REACHED returns Skipped,
\* never Success, and runs neither the problematic-transaction check nor
\* process_transaction; the builder is left as it was.
C3_LimitReachedAlwaysSkips ==
    last.limit_behavior = "LIMIT_REACHED" =>
        /\ last.kind = "Skipped"
        /\ ~last.static_called
        /\ ~last.exec_called
        /\ last.cost_after = last.cost_before
        /\ builder.txs = last.txs_before

\* C3 witness: a boot-code contract call offered under LIMIT_REACHED.
C3_Witness ==
    /\ last.limit_behavior = "LIMIT_REACHED"
    /\ last.tx = "boot"
    /\ last.error = "BlockLimitFunction::LIMIT_REACHED"

C6_ReplayStopsAtFirstFailure ==
    Validating =>
        /\ builder.txs = SubSeq(proposal.block.txs, 1, Len(builder.txs))
        /\ pc \notin {"proposed", "v_static", "v_parent"} =>
               Len(admitted) = replay_i
        /\ (last.tx # NONE /\ last.kind # "Success") =>
               /\ pc = "done"
               /\ verdict.kind = "Reject"
               /\ verdict.code = "BadTransaction"
               /\ verdict.reason[2] = replay_i
               /\ last.tx = proposal.block.txs[replay_i + 1]
               /\ last.txs_before = SubSeq(proposal.block.txs, 1, replay_i)
        /\ (verdict.kind = "Reject" /\ verdict.code = "BadTransaction") =>
               last.kind \in {"Skipped", "ProcessingError", "Problematic"}

\* C6 witness: the second of three transactions fails; the third is not tried.
C6_Witness ==
    /\ pc = "done"
    /\ verdict.code = "BadTransaction"
    /\ Len(proposal.block.txs) = 3
    /\ verdict.reason[2] = 1
    /\ Len(admitted) = 1

\* The header validate compares: the replayed one, the proposal's signatures
\* copied onto it.
C7_ReplayedHeader ==
    [builder.header EXCEPT
        !.miner_signature = proposal.block.header.miner_signature,
        !.signer_signature = proposal.block.header.signer_signature]

\* C7: validate returns Ok only if every transaction of the proposal replayed
\* to Success and the block hash of the replayed header, under the proposal's
\* signatures, is the block hash of the proposal's header, and the block it
\* returns is that replayed block; when all transactions succeeded, the block
\* was sealed and the hashes differ, it returns Reject with code BadBlockHash.
C7_OkOnlyOnFullReplayAndEqualHash ==
    (Validating /\ pc = "done") =>
        /\ verdict.kind = "Ok" =>
               /\ TxsOf(admitted) = proposal.block.txs
               /\ "seal" \in effects
               /\ block_hash(C7_ReplayedHeader) = block_hash(proposal.block.header)
               /\ verdict.block[1] = [header |-> C7_ReplayedHeader,
                                      txs |-> proposal.block.txs]
        /\ ("seal" \in effects /\ TxsOf(admitted) = proposal.block.txs
            /\ block_hash(C7_ReplayedHeader) # block_hash(proposal.block.header)) =>
               (verdict.kind = "Reject" /\ verdict.code = "BadBlockHash")

\* C7 witness: a miner forges the state root of a block with a transaction and
\* signs; every transaction replays, the hashes differ.
C7_Witness ==
    /\ pc = "done"
    /\ deviation = <<"forged", "state_index_root">>
    /\ Len(admitted) >= 1
    /\ TxsOf(admitted) = proposal.block.txs
    /\ verdict.code = "BadBlockHash"

\* C8 as stated: on every path of validate nothing of the scratch context is
\* committed, and the persistent storage is what it was before validate.
C8_ValidateCommitsNothing ==
    Validating =>
        (mined_blocks = mined_before /\ "commit_mined_block" \notin effects)

\* C9 as stated: validate never panics; it ends by returning Ok or a Reject.
C9_ValidateNeverPanics ==
    Validating => pc # "panic"

\* C10 as stated: for every parent kind, a build requested with a coinbase
\* and no tenure change fails with ExpectedTenureChange in new_from_parent,
\* before load_tenure_info and before any transaction is attempted.
C10_CoinbaseWithoutTenureChangeFails ==
    (pc # "idle" /\ tenure_info.coinbase_tx # NONE
     /\ tenure_info.tenure_change_tx = NONE) =>
        (pc = "b_err" /\ build_error = "ExpectedTenureChange" /\ effects = {}
         /\ last = NoCall)

\* A build has called new_from_parent and validate has not been called.
Constructed == pc # "idle" /\ ~Validating

\* Both transactions of the tenure intent were supplied.
BothSupplied ==
    tenure_info.coinbase_tx # NONE /\ tenure_info.tenure_change_tx # NONE

\* C11: with an epoch-2 parent, new_from_parent returns a new-tenure builder
\* if and only if both the coinbase and the tenure change are supplied; with
\* either or both missing it returns Err(ExpectedTenureChange).
C11_Epoch2ParentNeedsBoth ==
    (Constructed /\ parent_header.kind = "epoch2") =>
        IF BothSupplied
        THEN /\ ~(pc = "b_err" /\ build_error = "ExpectedTenureChange")
             /\ pc = "b_constructed" =>
                    /\ builder.coinbase_tx = tenure_info.coinbase_tx
                    /\ builder.tenure_tx = tenure_info.tenure_change_tx
                    /\ builder.epoch2_parent_header = <<parent_header>>
                    /\ builder.nakamoto_parent_header = <<>>
        ELSE /\ pc = "b_err"
             /\ build_error = "ExpectedTenureChange"
             /\ builder = NoBuilder

\* C11 witness: a tenure change without a coinbase atop the epoch-2 parent.
C11_Witness ==
    /\ Constructed
    /\ parent_header.kind = "epoch2"
    /\ tenure_info.tenure_change_tx = "tc_bf"
    /\ tenure_info.coinbase_tx = NONE
    /\ build_error = "ExpectedTenureChange"

\* C12 as stated: with a Nakamoto parent, both transactions give a new-tenure
\* builder; neither, or only a tenure change of cause Extended, gives a
\* continuation builder without a coinbase; a tenure change of another cause
\* without a coinbase is rejected with ExpectedTenureChange.
C12_NakamotoParentCombinations ==
    (Constructed /\ parent_header.kind = "nakamoto") =>
        LET cb == tenure_info.coinbase_tx
            tc == tenure_info.tenure_change_tx
        IN /\ BothSupplied =>
                 /\ build_error # "ExpectedTenureChange"
                 /\ pc = "b_constructed" =>
                        (builder.coinbase_tx = cb /\ builder.tenure_tx = tc)
           /\ (cb = NONE /\ (tc = NONE \/ PayloadCause(tc) = "Extended")) =>
                 /\ build_error # "ExpectedTenureChange"
                 /\ pc = "b_constructed" =>
                        (builder.coinbase_tx = NONE /\ builder.tenure_tx = tc)
           /\ (cb = NONE /\ tc # NONE /\ PayloadCause(tc) # "Extended") =>
                 (pc = "b_err" /\ build_error = "ExpectedTenureChange")

\* C13: whenever bytes_so_far + tx_len >= MAX_EPOCH_SIZE, equality included,
\* try_mine_tx_with_len returns Skipped with BlockTooBigError whatever the
\* limit state, calls neither the static problematic check nor
\* process_transaction, and leaves bytes_so_far and txs unchanged.
C13_ByteBudgetSkips ==
    (last.tx # NONE /\ last.bytes_before + last.len >= MAX_EPOCH_SIZE) =>
        /\ last.kind = "Skipped"
        /\ last.error = "BlockTooBigError"
        /\ ~last.static_called
        /\ ~last.exec_called
        /\ builder.bytes_so_far = last.bytes_before
        /\ builder.txs = last.txs_before

\* C13 witness: under LIMIT_REACHED, a transaction that would fill the block
\* to exactly MAX_EPOCH_SIZE.
C13_Witness ==
    /\ last.tx # NONE
    /\ last.bytes_before > 0
    /\ last.bytes_before + last.len = MAX_EPOCH_SIZE
    /\ last.limit_behavior = "LIMIT_REACHED"
    /\ last.error = "BlockTooBigError"
    /\ builder.bytes_so_far = last.bytes_before

\* The last call was made under CONTRACT_LIMIT_HIT within the byte budget.
UnderContractLimit ==
    /\ last.tx # NONE
    /\ last.limit_behavior = "CONTRACT_LIMIT_HIT"
    /\ last.bytes_before + last.len < MAX_EPOCH_SIZE

\* The last transaction is a contract call into the boot-code address.
LastIsBootCall == Payload(last.tx) = "ContractCall" /\ last.tx = "boot"

\* C14: under CONTRACT_LIMIT_HIT, within the byte budget, every contract call
\* not into the boot-code address and every contract deploy is Skipped
\* without being executed, and a contract call into the boot-code address
\* passes the gate and goes on to the static check and the execution.
C14_ContractLimitGate ==
    UnderContractLimit =>
        /\ (Payload(last.tx) = "SmartContract"
            \/ (Payload(last.tx) = "ContractCall" /\ ~LastIsBootCall)) =>
               /\ last.kind = "Skipped"
               /\ last.error = "BlockLimitFunction::CONTRACT_LIMIT_HIT"
               /\ ~last.static_called
               /\ ~last.exec_called
               /\ builder.txs = last.txs_before
               /\ builder.bytes_so_far = last.bytes_before
        /\ LastIsBootCall =>
               /\ last.error # "BlockLimitFunction::CONTRACT_LIMIT_HIT"
               /\ last.static_called
               /\ last.exec_called

\* C14 witness: a boot-code call is admitted under CONTRACT_LIMIT_HIT.
C14_Witness ==
    /\ UnderContractLimit
    /\ LastIsBootCall
    /\ last.exec_called
    /\ last.kind = "Success"

\* C15 as stated: under CONTRACT_LIMIT_HIT only contract calls into the
\* boot-code address are still executed or admitted; no token transfer,
\* coinbase or tenure change is.
C15_OnlyBootCallsExecuted ==
    (last.tx # NONE /\ last.limit_behavior = "CONTRACT_LIMIT_HIT"
     /\ (last.exec_called \/ last.kind = "Success")) => LastIsBootCall

\* C15 amended: under CONTRACT_LIMIT_HIT the only contract transactions still
\* executed or admitted are calls into the boot-code address; transactions
\* of the other payloads (token transfer, coinbase, tenure change) pass the
\* gate and, within the byte budget, go on to the static check.
C15_OnlyBootCallsAmongContracts ==
    (last.tx # NONE /\ last.limit_behavior = "CONTRACT_LIMIT_HIT") =>
        /\ (last.exec_called \/ last.kind = "Success") =>
               \/ LastIsBootCall
               \/ Payload(last.tx) \in {"TokenTransfer", "Coinbase", "TenureChange"}
        /\ (UnderContractLimit
            /\ Payload(last.tx) \in {"TokenTransfer", "Coinbase", "TenureChange"}) =>
               last.static_called

\* C15 witness: a token transfer is admitted under CONTRACT_LIMIT_HIT.
C15_Witness ==
    /\ last.limit_behavior = "CONTRACT_LIMIT_HIT"
    /\ last.tx = "xfer"
    /\ last.exec_called
    /\ last.kind = "Success"
    /\ builder.txs = Append(last.txs_before, "xfer")

\* Percentage of the block's budget used before the last call.
C17_ProportionBefore == (last.cost_before * 100) \div BLOCK_LIMIT

\* C17: when execution fails with CostOverflowError, the outcome is
\* ProcessingError(TransactionTooBigError) if the proportion of the budget
\* used before the transaction is strictly below
\* TX_BLOCK_LIMIT_PROPORTION_HEURISTIC, and Skipped(BlockTooBigError) if it is
\* at or above it; in neither case is the transaction appended, and the cost
\* is reset to what it was before.
C17_CostOverflowClassification ==
    last.exec_err = "CostOverflowError" =>
        /\ IF C17_ProportionBefore < TX_BLOCK_LIMIT_PROPORTION_HEURISTIC
           THEN last.kind = "ProcessingError" /\ last.error = "TransactionTooBigError"
           ELSE last.kind = "Skipped" /\ last.error = "BlockTooBigError"
        /\ builder.txs = last.txs_before
        /\ builder.bytes_so_far = last.bytes_before
        /\ last.cost_after = last.cost_before

\* C17 witness: the block is used to exactly the heuristic's proportion, and
\* the overflowing transaction is skipped.
C17_Witness ==
    /\ last.exec_err = "CostOverflowError"
    /\ C17_ProportionBefore = TX_BLOCK_LIMIT_PROPORTION_HEURISTIC
    /\ last.kind = "Skipped"
    /\ last.error = "BlockTooBigError"

\* C18: validate rejects with code InvalidBlock whenever the proposal's
\* chain_id differs from the chain state's or the mainnet flag derived from
\* it differs from the chain state's, before any storage read, static check
\* or transaction execution.
C18_WrongNetworkRejectedFirst ==
    (Validating /\ pc # "proposed"
     /\ (proposal.chain_id # chainstate.chain_id
         \/ (proposal.chain_id = CHAIN_ID_MAINNET) # chainstate.mainnet)) =>
        /\ pc = "done"
        /\ verdict.kind = "Reject"
        /\ verdict.code = "InvalidBlock"
        /\ effects = {}
        /\ last = NoCall
        /\ builder = NoBuilder
        /\ mined_blocks = mined_before

\* C18 witness: the chain ids agree and the mainnet flags do not.
C18_Witness ==
    /\ pc = "done"
    /\ proposal.chain_id = chainstate.chain_id
    /\ (proposal.chain_id = CHAIN_ID_MAINNET) # chainstate.mainnet
    /\ verdict.code = "InvalidBlock"
    /\ effects = {}

\* The chain state has no header under the proposal's parent_block_id.
ParentAbsent ==
    \A h \in chainstate.headers : block_id(h) # proposal.block.header.parent_block_id

C16_ProblematicAborts ==
    /\ (last.tx # NONE /\ last.static_called /\ last.tx = "bad") =>
           /\ last.kind = "Problematic"
           /\ ~last.exec_called
           /\ builder.txs = last.txs_before
           /\ builder.bytes_so_far = last.bytes_before
    /\ last.kind = "Problematic" =>
           /\ builder.txs = last.txs_before
           /\ builder.bytes_so_far = last.bytes_before
           /\ Validating =>
                  /\ pc = "done"
                  /\ verdict.kind = "Reject"
                  /\ verdict.code = "BadTransaction"
                  /\ verdict.reason[1] = "Problematic tx"
           /\ from_txs # <<>> =>
                  /\ pc = "b_err"
                  /\ build_error = "ProblematicTransaction"
                  /\ block = NoBlock

\* C16 witness: make_nakamoto_block_from_txs is given a flagged transaction
\* followed by another one, and returns at the flagged one.
C16_Witness ==
    /\ from_txs # <<>>
    /\ from_txs[1] # <<>>
    /\ last.tx = "bad"
    /\ last.kind = "Problematic"
    /\ ~last.exec_called
    /\ pc = "b_err"
    /\ build_error = "ProblematicTransaction"

\* C20 as stated: when selection reports that the abort signal stopped it,
\* the build does not fail: it finalizes and returns a block of exactly the
\* transactions accepted so far.
C20_AbortedBuildStillReturnsBlock ==
    (Constructed /\ "blocked" \in effects) =>
        /\ pc # "b_err"
        /\ build_error = NONE
        /\ block # NoBlock
        /\ block.txs = TxsOf(admitted)

\* C24: the block mine_nakamoto_block returns lists exactly the admitted
\* transactions, in the order they were admitted, and its tx_merkle_root is the
\* Merkle root over their ids in that same order.
C24_BlockListsAdmissionOrder ==
    /\ (~Validating /\ pc \in {"b_mined", "b_finished"}) =>
          /\ block.txs = TxsOf(admitted)
          /\ block.header.tx_merkle_root = <<"merkle", TxsOf(admitted)>>
    /\ pc = "v_mined" =>
          /\ builder.txs = TxsOf(admitted)
          /\ builder.header.tx_merkle_root = <<"merkle", TxsOf(admitted)>>

\* A mined block of two admitted transactions.
C24_Witness ==
    /\ ~Validating
    /\ pc = "b_mined"
    /\ Len(admitted) = 2
    /\ admitted[1].tx # admitted[2].tx
    /\ block.txs = <<admitted[1].tx, admitted[2].tx>>

\* The states in which transactions are offered to an open block.
Admitting == pc \in {"b_mining", "f_mining", "v_replay"}

\* C27: the header's tx_merkle_root and state_index_root are written only by
\* finalize_block.  A step that changes either digest is the finalization (the
\* block is sealed by it and was not before); every other step taken while
\* transactions are offered, every try_mine_tx_with_len call among them, leaves
\* the whole header as it was; and once the block is sealed no admission call
\* follows, so finalization runs once, after the last admission attempt.
C27_DigestsWrittenOnlyByFinalize ==
    [][ /\ ( /\ builder # NoBuilder
             /\ builder' # NoBuilder
             /\ \/ builder'.header.tx_merkle_root # builder.header.tx_merkle_root
                \/ builder'.header.state_index_root # builder.header.state_index_root )
           => (Admitting /\ "seal" \notin effects /\ "seal" \in effects')
        /\ (Admitting /\ "seal" \notin effects') => builder'.header = builder.header
        /\ "seal" \in effects =>
              /\ last' \in {last, NoCall}
              /\ admitted' \in {admitted, <<>>}
              /\ builder' # NoBuilder => builder'.header = builder.header
      ]_vars

\* A build finalized after two admission calls, one of them successful: the
\* digests are those of finalize_block.
C27_Witness ==
    /\ ~Validating
    /\ pc = "b_mined"
    /\ "seal" \in effects
    /\ Len(admitted) = 1
    /\ last.kind = "Skipped"
    /\ builder.header.tx_merkle_root = <<"merkle", TxsOf(admitted)>>
    /\ builder.header.state_index_root # ZeroHash

\* C28: after an admission call whose execution ended in a cost overflow,
\* whether it returned Skipped(BlockTooBigError) or
\* ProcessingError(TransactionTooBigError), the accumulated cost of the
\* ClarityTx is cost_before, the cost accumulated before that transaction: the
\* partial charge the oracle left is rolled back in both branches.
C28_CostOverflowRollsBackCharge ==
    (Admitting /\ last.exec_err = "CostOverflowError") =>
        /\ \/ last.kind = "Skipped" /\ last.error = "BlockTooBigError"
           \/ last.kind = "ProcessingError" /\ last.error = "TransactionTooBigError"
        /\ clarity_tx.cost = last.cost_before
        /\ last.cost_before + TxCost(last.tx) > BLOCK_LIMIT

\* An overflow with a charge to roll back, in a block that had consumed little.
C28_Witness ==
    /\ Admitting
    /\ last.exec_err = "CostOverflowError"
    /\ last.kind = "ProcessingError"
    /\ last.cost_before > 0
    /\ clarity_tx.cost = last.cost_before

\* C29: when process_transaction fails with an error other than a cost
\* overflow (the interpreter's stack-depth error among them), the admission
\* call returns Problematic with that error if is_problematic flags it, and
\* ProcessingError with that error otherwise; it never returns Success, the
\* transaction is not appended and bytes_so_far is unchanged.
C29_ExecutionErrorsAreReported ==
    (last.exec_err \notin {NONE, "CostOverflowError"}) =>
        /\ last.kind = IF is_problematic(last.tx, last.exec_err)
                       THEN "Problematic" ELSE "ProcessingError"
        /\ last.error = last.exec_err
        /\ builder.txs = last.txs_before
        /\ builder.bytes_so_far = last.bytes_before

\* A transaction that fails its nonce check in a block that holds it already:
\* reported as a ProcessingError, the block as it was.
C29_Witness ==
    /\ last.exec_err = "InvalidStacksTransaction"
    /\ ~is_problematic(last.tx, last.exec_err)
    /\ last.kind = "ProcessingError"
    /\ last.error = "InvalidStacksTransaction"
    /\ Len(builder.txs) = 1
    /\ builder.txs = last.txs_before

\* C30: the builder a constructor returns has a header with chain_length = the
\* parent's chain length + 1, parent_block_id = the parent's block id, the
\* supplied tenure consensus hash and total burn, bytes_so_far = 0 and no
\* transactions; the admission calls and everything after them leave these
\* four header fields as the constructor set them.  Checked for the build, on
\* the parent it was given, and for validate, on the parent it looked up.
C30_ConstructorsInitialiseHeader ==
    /\ (Constructed /\ builder # NoBuilder) =>
          /\ builder.header.chain_length = parent_header.chain_length + 1
          /\ builder.header.parent_block_id
                 = <<parent_header.consensus_hash, parent_header.block_hash>>
          /\ builder.header.consensus_hash = TenureIdConsensusHash
          /\ builder.header.burn_spent = chainstate.expected_burn
          /\ builder.total_burn = chainstate.expected_burn
          /\ pc = "b_constructed" =>
                /\ builder.bytes_so_far = 0
                /\ builder.txs = <<>>
                /\ builder.header.tx_merkle_root = ZeroHash
                /\ builder.header.state_index_root = ZeroHash
    /\ (Validating /\ builder # NoBuilder) =>
          /\ \E h \in chainstate.headers :
                /\ builder.header.parent_block_id = <<h.consensus_hash, h.block_hash>>
                /\ builder.header.chain_length = h.chain_length + 1
          /\ builder.header.parent_block_id = proposal.block.header.parent_block_id
          /\ builder.header.consensus_hash = proposal.block.header.consensus_hash
          /\ builder.header.burn_spent = proposal.block.header.burn_spent
          /\ pc = "v_constructed" =>
                /\ builder.bytes_so_far = 0
                /\ builder.txs = <<>>

\* A tenure continued atop a Nakamoto parent, after an admission and the
\* finalization: the header fields are still the constructor's.
C30_Witness ==
    /\ Constructed
    /\ pc = "b_mined"
    /\ parent_header.kind = "nakamoto"
    /\ tenure_info.coinbase_tx = NONE
    /\ Len(admitted) = 1
    /\ builder.header.chain_length = parent_header.chain_length + 1
    /\ builder.header.parent_block_id = block_id(parent_header)

\* The values a proposal's tenure_start_block is varied over.
TenureStartBlocks ==
    {block_id(NakamotoParent), block_id(Epoch2Parent), <<"chX", "bhX">>}

\* C22: validate's verdict does not depend on the proposal's
\* tenure_start_block: whatever validate has returned for the proposal, it
\* returns the same for every proposal that differs from it in
\* tenure_start_block only; so the signed proposal of a built block whose
\* tenure_start_block was corrupted is accepted when the block's intent is
\* embedded in its transactions, as the uncorrupted one is.
C22_VerdictIgnoresTenureStartBlock ==
    /\ (Validating /\ pc = "done") =>
          \A t \in TenureStartBlocks :
              validate([proposal EXCEPT !.tenure_start_block = t], chainstate)
                  = verdict
    /\ (pc = "done" /\ deviation = <<"tenure_start_block">> /\ IntentEmbedded) =>
          /\ verdict.kind = "Ok"
          /\ verdict.block = <<proposal.block>>

\* A new tenure atop a Nakamoto parent, proposed with a corrupted
\* tenure_start_block and accepted.
C22_Witness ==
    /\ pc = "done"
    /\ deviation = <<"tenure_start_block">>
    /\ proposal.tenure_start_block # proposal.block.header.parent_block_id
    /\ find_payload(proposal.block.txs, "TenureChange") # NONE
    /\ find_payload(proposal.block.txs, "Coinbase") # NONE
    /\ parent_header.kind = "nakamoto"
    /\ verdict.kind = "Ok"

\* C23: when transaction selection fails with an error, build_nakamoto_block
\* rolls the scratch block back and returns that error: the block is neither
\* sealed nor committed, no block is produced and the event observer is not
\* told of one.  A build that has returned Ok has completed finish_block, seal
\* and commit_mined_block, in that order of the pipeline: its block is the
\* sealed one and its trie is in mined_blocks.
C23_FailedSelectionRollsBack ==
    /\ (Constructed /\ "selection_error" \in effects) =>
          /\ pc = "b_err"
          /\ build_error \in SelectionErrors
          /\ "rollback_block" \in effects
          /\ effects \cap {"finish_block", "seal", "commit_mined_block",
                           "mined_nakamoto_block_event"} = {}
          /\ ~clarity_tx.open /\ ~clarity_tx.sealed
          /\ block = NoBlock
          /\ mined_blocks = {}
    /\ (Constructed /\ pc = "b_finished") =>
          /\ {"finish_block", "seal", "commit_mined_block"} \subseteq effects
          /\ clarity_tx.finished /\ clarity_tx.sealed
          /\ block # NoBlock
          /\ block.txs = builder.txs
          /\ \E e \in mined_blocks : e.trie = block.header.state_index_root
          /\ build_error = NONE

\* Selection fails after it had one transaction admitted: the build returns
\* the error and the admitted transaction goes with the scratch block.
C23_Witness ==
    /\ Constructed
    /\ "selection_error" \in effects
    /\ "rollback_block" \in effects
    /\ Len(admitted) = 1
    /\ pc = "b_err"
    /\ build_error = "DBError"
    /\ block = NoBlock

\* C25: consensus_deserialize applied to the bytes consensus_serialize wrote
\* for a proposal returns Ok of an equal proposal, and nothing is left unread;
\* the fields are written, and so read, in the order block,
\* tenure_start_block, chain_id.
C25_ProposalCodecRoundTrips ==
    Validating =>
        /\ consensus_deserialize(wire) = <<proposal>>
        /\ wire = write_block(proposal.block)
                      \o write_block_id(proposal.tenure_start_block)
                      \o write_u32(proposal.chain_id)
        /\ LET b == read_block(wire)
               t == read_block_id(b.rest)
               c == read_u32(t.rest)
           IN /\ b.value = <<proposal.block>>
              /\ t.value = <<proposal.tenure_start_block>>
              /\ c.value = <<proposal.chain_id>>
              /\ c.rest = <<>>

\* A proposal of a block of two transactions whose three fields all differ
\* from their defaults, received as twelve units and decoded.
C25_Witness ==
    /\ Validating
    /\ Len(proposal.block.txs) = 2
    /\ proposal.tenure_start_block = <<"chX", "bhX">>
    /\ proposal.chain_id = chainstate.chain_id
    /\ Len(wire) = 12
    /\ wire[Len(wire)].t = "byte"
    /\ consensus_deserialize(wire) = <<proposal>>

\* C21: two validate calls on different proposals against the same tip, their
\* steps interleaved in any way, each return the verdict validate returns for
\* their proposal alone, and neither overwrites what the other wrote: whatever
\* a call has put in storage is still there as that call left it.
C21_ConcurrentValidationsIndependent ==
    \A i \in DOMAIN validations :
        /\ validations[i].pc = "done" =>
              validations[i].verdict = validate(validations[i].proposal, chainstate)
        /\ validations[i].wrote \subseteq mined_blocks

\* C31: the MinerTenureInfo load_tenure_info returns has coinbase_height = the
\* parent's coinbase height + 1 whenever the builder's parent is a stored
\* block, and 0 only for the genesis parent; a failed read of the parent's
\* coinbase height never ends as coinbase_height = 0.
C31_CoinbaseHeightIsParentPlusOne ==
    (info # NoInfo /\ builder # NoBuilder) =>
        IF BuilderParent(builder).kind = "genesis"
        THEN info.coinbase_height = 0
        ELSE /\ chainstate.coinbase_height_ok
             /\ chainstate.coinbase_height # <<>>
             /\ info.coinbase_height = chainstate.coinbase_height[1] + 1

\* The parent the build was given is not in chain storage.
BuildParentAbsent ==
    ~\E h \in chainstate.headers :
        <<h.consensus_hash, h.block_hash>>
            = <<parent_header.consensus_hash, parent_header.block_hash>>

\* load_tenure_info has been called in the build.
BuildLoadCalled == Constructed /\ builder # NoBuilder /\ "sortdb_read" \in effects

C33_TenureKindConsistent ==
    (builder # NoBuilder /\ clarity_tx.setup # <<>> /\ from_txs = <<>>) =>
        LET new_tenure == clarity_tx.setup[7]
            tenure_extend == clarity_tx.setup[9]
        IN /\ new_tenure <=> (builder.coinbase_tx # NONE)
           /\ tenure_extend => (builder.coinbase_tx = NONE)
           /\ ~(new_tenure /\ tenure_extend)

\* The first transaction of the proposal with the given payload, or none.
C34_FirstOf(variant) ==
    LET txs == proposal.block.txs
        before(i) == {j \in 1..(i - 1) : Payload(txs[j]) = variant}
    IN IF \E i \in 1..Len(txs) : Payload(txs[i]) = variant
       THEN txs[CHOOSE i \in 1..Len(txs) :
                    Payload(txs[i]) = variant /\ before(i) = {}]
       ELSE NONE

\* C34: validate takes the tenure intent from the proposal's own transactions
\* and from nothing else: the builder's tenure change is the first
\* transaction with a TenureChange payload, its coinbase (when it is a
\* new-tenure builder) the first with a Coinbase payload, and the cause the
\* block is set up under is that tenure change's cause; a proposal holding
\* neither is replayed as a continuation with no cause.
C34_IntentFromProposalTxs ==
    (Validating /\ builder # NoBuilder) =>
        LET tc == C34_FirstOf("TenureChange")
            cb == C34_FirstOf("Coinbase")
        IN /\ builder.tenure_tx = tc
           /\ builder.coinbase_tx = IF tc # NONE /\ cb # NONE THEN cb ELSE NONE
           /\ info # NoInfo =>
                 info.cause = IF tc = NONE THEN <<>> ELSE <<PayloadCause(tc)>>
           /\ (tc = NONE /\ cb = NONE /\ clarity_tx.setup # <<>>) =>
                 /\ builder.coinbase_tx = NONE
                 /\ info.cause = <<>>
                 /\ clarity_tx.setup[7] = FALSE
                 /\ clarity_tx.setup[9] = FALSE

\* A block built for a new tenure whose transactions hold neither the tenure
\* change nor the coinbase the build was given: validate replays it as a
\* continuation with no cause.
C34_Witness ==
    /\ Validating
    /\ builder # NoBuilder
    /\ clarity_tx.setup # <<>>
    /\ tenure_info.tenure_change_tx = "tc_bf"
    /\ tenure_info.coinbase_tx = "cb"
    /\ C34_FirstOf("TenureChange") = NONE
    /\ C34_FirstOf("Coinbase") = NONE
    /\ Len(proposal.block.txs) = 1
    /\ builder.coinbase_tx = NONE
    /\ info.cause = <<>>

\* The sum of tx_len over a list of transactions.
RECURSIVE C35_SumTxLen(_)
C35_SumTxLen(txs) ==
    IF txs = <<>> THEN 0 ELSE tx_len(txs[1]) + C35_SumTxLen(Tail(txs))

\* C35: on Accept the returned block carries the proposal's miner_signature
\* and signer_signature, every other field of its header is the replayed
\* header's, its transactions are the proposal's in the proposal's order, and
\* the returned size is the sum of tx_len over the proposal's transactions.
C35_AcceptedBlockCarriesProposal ==
    (Validating /\ pc = "done" /\ verdict.kind = "Ok") =>
        LET returned == verdict.block[1]
        IN /\ returned.header.miner_signature = proposal.block.header.miner_signature
           /\ returned.header.signer_signature = proposal.block.header.signer_signature
           /\ signature_hash(returned.header) = signature_hash(builder.header)
           /\ returned.txs = proposal.block.txs
           /\ verdict.size = C35_SumTxLen(proposal.block.txs)

\* C35 witness: a signed proposal of two transactions of different lengths is
\* accepted.
C35_Witness ==
    /\ Validating /\ pc = "done" /\ verdict.kind = "Ok"
    /\ Len(proposal.block.txs) = 2
    /\ tx_len(proposal.block.txs[1]) # tx_len(proposal.block.txs[2])
    /\ proposal.block.header.miner_signature # NoSignature
    /\ proposal.block.header.signer_signature # NoSignature

\* The header stored under the parent_block_id the proposal names.
C36_StoredParent ==
    CHOOSE h \in chainstate.headers : block_id(h) = proposal.block.header.parent_block_id

\* C36: an accepted proposal names a stored parent and has a chain_length of
\* that parent's chain length + 1, a tx_merkle_root that is the Merkle root of
\* its own transactions in order, and a state_index_root that is the state root
\* sealed after the replay of its transactions.
C36_AcceptedHeaderIsRecomputed ==
    (Validating /\ pc = "done" /\ verdict.kind = "Ok") =>
        /\ \E h \in chainstate.headers : block_id(h) = proposal.block.header.parent_block_id
        /\ proposal.block.header.chain_length = C36_StoredParent.chain_length + 1
        /\ proposal.block.header.tx_merkle_root = MerkleRoot(proposal.block.txs)
        /\ clarity_tx.sealed
        /\ proposal.block.header.state_index_root = seal(clarity_tx)

\* C36 witness: a miner signs a block of one transaction or more under a
\* chain_length that is not its parent's + 1; the replay succeeds and the
\* proposal is rejected.
C36_Witness ==
    /\ Validating /\ pc = "done"
    /\ deviation = <<"forged", "chain_length">>
    /\ Len(proposal.block.txs) >= 1
    /\ TxsOf(admitted) = proposal.block.txs
    /\ proposal.block.header.chain_length # C36_StoredParent.chain_length + 1
    /\ verdict.kind = "Reject"

\* The finalization steps validate has run on the scratch context so far.
C37_Finalized ==
    \/ effects \cap {"finish_block", "seal", "commit_mined_block"} # {}
    \/ clarity_tx.finished
    \/ clarity_tx.sealed
    \/ mined_blocks # mined_before

\* C37: a validate that rejects with InvalidBlock, ChainstateError or
\* BadTransaction has run neither finish_block, seal nor commit_mined_block,
\* and whenever one of them has run, every transaction of the proposal has
\* been replayed and returned Success.
C37_FinalizationOnlyAfterFullReplay ==
    Validating =>
        /\ (pc = "done" /\ verdict.kind = "Reject"
            /\ verdict.code \in {"InvalidBlock", "ChainstateError", "BadTransaction"})
               => ~C37_Finalized
        /\ C37_Finalized =>
               /\ replay_i = Len(proposal.block.txs)
               /\ TxsOf(admitted) = proposal.block.txs

\* C37 witness: a proposal whose second transaction fails after the first was
\* applied is rejected with BadTransaction, nothing finalized.
C37_Witness ==
    /\ Validating /\ pc = "done"
    /\ verdict.kind = "Reject" /\ verdict.code = "BadTransaction"
    /\ Len(admitted) = 1
    /\ Len(proposal.block.txs) = 2
    /\ ~C37_Finalized

\* C38: whatever tx_len arguments and limit states the admission calls were
\* given, in either build, the builder's bytes_so_far is strictly less than
\* MAX_EPOCH_SIZE.
C38_BytesBelowEpochSize ==
    /\ builder.bytes_so_far >= 0
    /\ builder.bytes_so_far < MAX_EPOCH_SIZE

\* C38 witness: in a build without overflow checks a transaction was admitted
\* with a tx_len whose sum with bytes_so_far left u64, after another one.
C38_Witness ==
    /\ pc = "a_wrapping"
    /\ Len(admitted) = 2
    /\ last.kind = "Success"
    /\ add_overflows(last.bytes_before, last.len)
    /\ builder.bytes_so_far = wrapping_add(last.bytes_before, last.len)

\* C39 as stated: for every tx_len of the caller the byte budget check neither
\* aborts the process nor lets through a transaction whose sum with
\* bytes_so_far, taken in the integers, reaches MAX_EPOCH_SIZE: such a call
\* returns Skipped with BlockTooBigError and leaves the builder as it was.
C39_ByteBudgetComparisonExact ==
    last.tx # NONE =>
        /\ last.kind # "panic"
        /\ last.len >= MAX_EPOCH_SIZE - last.bytes_before =>
               /\ last.kind = "Skipped"
               /\ last.error = "BlockTooBigError"
               /\ builder.bytes_so_far = last.bytes_before
               /\ builder.txs = last.txs_before

\* How many of the tenure change and the coinbase the build was given.
C40_InitialCount ==
    (IF tenure_info.tenure_change_tx # NONE THEN 1 ELSE 0)
        + (IF tenure_info.coinbase_tx # NONE THEN 1 ELSE 0)

====
